---- MODULE Spec2Model ----
(***************************************************************************)
(* Model of the NextCare telemetry collector                               *)
(* (src/app/data_collector/__init__.py): the DataCollector object, its     *)
(* loop threads, the per-thread database session, the committed store and  *)
(* the live fan-out of src/app/dashboard/routes.py.                        *)
(*                                                                         *)
(* Numbers with a fractional part (Python floats, Numeric(10,2) columns)   *)
(* are rationals [num, den]; a record with den = 0 stands for None.        *)
(***************************************************************************)
EXTENDS Integers, Sequences, FiniteSets, TLC

\* ------------------------------------------------------------------ bounds
MaxThreads == 2      \* loop threads start_collection may create
MaxCalls == 3        \* calls made from outside the loop threads:
                     \* start_collection, stop_collection, dashboard and
                     \* configuration requests
MaxEvents == 5       \* calls and cycles together, a dashboard or
                     \* configuration write counted twice
MaxCycles == 2       \* acquisition cycles started, over all threads
MaxIdLen == 3        \* characters of a register identifier
MaxInstances == 2    \* DataCollector instances initialize_data_collector
                     \* may construct
MaxFairEvents == 4   \* calls and cycles together where every thread is
                     \* scheduled (SpecFair)
MaxLoopEvents == 4   \* calls and cycles together where every sleep is
                     \* timed (SpecLoop)

\* --------------------------------------------------------------- numbers
Rat(n, d) == [num |-> n, den |-> d]
NoneVal == Rat(0, 0)
IsNone(x) == x.den = 0
\* a < b and a = b on rationals with positive denominators
RatLess(a, b) == a.num * b.den < b.num * a.den
RatEq(a, b) == a.num * b.den = b.num * a.den

\* actual_value without the division by 100
actual_value_unscaled(raw_value) == Rat(raw_value, 1)

\* read_register: actual_value = raw_value / 100.0
actual_value(raw_value) == Rat(raw_value, 100)

\* ------------------------------------------------------- register codec
\* A character is a string of one character; a character outside ASCII is
\* written as its code point, "U+0662" for ARABIC-INDIC DIGIT TWO.
Digits == <<"0", "1", "2", "3", "4", "5", "6", "7", "8", "9">>

\* the decimal digits (category Nd) outside ASCII, each script from its
\* zero to its nine
UnicodeDigits == <<
    <<"U+0660", "U+0661", "U+0662", "U+0663", "U+0664",
      "U+0665", "U+0666", "U+0667", "U+0668", "U+0669">>,
    <<"U+06F0", "U+06F1", "U+06F2", "U+06F3", "U+06F4",
      "U+06F5", "U+06F6", "U+06F7", "U+06F8", "U+06F9">>,
    <<"U+07C0", "U+07C1", "U+07C2", "U+07C3", "U+07C4",
      "U+07C5", "U+07C6", "U+07C7", "U+07C8", "U+07C9">>,
    <<"U+0966", "U+0967", "U+0968", "U+0969", "U+096A",
      "U+096B", "U+096C", "U+096D", "U+096E", "U+096F">>,
    <<"U+09E6", "U+09E7", "U+09E8", "U+09E9", "U+09EA",
      "U+09EB", "U+09EC", "U+09ED", "U+09EE", "U+09EF">>,
    <<"U+0A66", "U+0A67", "U+0A68", "U+0A69", "U+0A6A",
      "U+0A6B", "U+0A6C", "U+0A6D", "U+0A6E", "U+0A6F">>,
    <<"U+0AE6", "U+0AE7", "U+0AE8", "U+0AE9", "U+0AEA",
      "U+0AEB", "U+0AEC", "U+0AED", "U+0AEE", "U+0AEF">>,
    <<"U+0B66", "U+0B67", "U+0B68", "U+0B69", "U+0B6A",
      "U+0B6B", "U+0B6C", "U+0B6D", "U+0B6E", "U+0B6F">>,
    <<"U+0BE6", "U+0BE7", "U+0BE8", "U+0BE9", "U+0BEA",
      "U+0BEB", "U+0BEC", "U+0BED", "U+0BEE", "U+0BEF">>,
    <<"U+0C66", "U+0C67", "U+0C68", "U+0C69", "U+0C6A",
      "U+0C6B", "U+0C6C", "U+0C6D", "U+0C6E", "U+0C6F">>,
    <<"U+0CE6", "U+0CE7", "U+0CE8", "U+0CE9", "U+0CEA",
      "U+0CEB", "U+0CEC", "U+0CED", "U+0CEE", "U+0CEF">>,
    <<"U+0D66", "U+0D67", "U+0D68", "U+0D69", "U+0D6A",
      "U+0D6B", "U+0D6C", "U+0D6D", "U+0D6E", "U+0D6F">>,
    <<"U+0DE6", "U+0DE7", "U+0DE8", "U+0DE9", "U+0DEA",
      "U+0DEB", "U+0DEC", "U+0DED", "U+0DEE", "U+0DEF">>,
    <<"U+0E50", "U+0E51", "U+0E52", "U+0E53", "U+0E54",
      "U+0E55", "U+0E56", "U+0E57", "U+0E58", "U+0E59">>,
    <<"U+0ED0", "U+0ED1", "U+0ED2", "U+0ED3", "U+0ED4",
      "U+0ED5", "U+0ED6", "U+0ED7", "U+0ED8", "U+0ED9">>,
    <<"U+0F20", "U+0F21", "U+0F22", "U+0F23", "U+0F24",
      "U+0F25", "U+0F26", "U+0F27", "U+0F28", "U+0F29">>,
    <<"U+1040", "U+1041", "U+1042", "U+1043", "U+1044",
      "U+1045", "U+1046", "U+1047", "U+1048", "U+1049">>,
    <<"U+1090", "U+1091", "U+1092", "U+1093", "U+1094",
      "U+1095", "U+1096", "U+1097", "U+1098", "U+1099">>,
    <<"U+17E0", "U+17E1", "U+17E2", "U+17E3", "U+17E4",
      "U+17E5", "U+17E6", "U+17E7", "U+17E8", "U+17E9">>,
    <<"U+1810", "U+1811", "U+1812", "U+1813", "U+1814",
      "U+1815", "U+1816", "U+1817", "U+1818", "U+1819">>,
    <<"U+1946", "U+1947", "U+1948", "U+1949", "U+194A",
      "U+194B", "U+194C", "U+194D", "U+194E", "U+194F">>,
    <<"U+19D0", "U+19D1", "U+19D2", "U+19D3", "U+19D4",
      "U+19D5", "U+19D6", "U+19D7", "U+19D8", "U+19D9">>,
    <<"U+1A80", "U+1A81", "U+1A82", "U+1A83", "U+1A84",
      "U+1A85", "U+1A86", "U+1A87", "U+1A88", "U+1A89">>,
    <<"U+1A90", "U+1A91", "U+1A92", "U+1A93", "U+1A94",
      "U+1A95", "U+1A96", "U+1A97", "U+1A98", "U+1A99">>,
    <<"U+1B50", "U+1B51", "U+1B52", "U+1B53", "U+1B54",
      "U+1B55", "U+1B56", "U+1B57", "U+1B58", "U+1B59">>,
    <<"U+1BB0", "U+1BB1", "U+1BB2", "U+1BB3", "U+1BB4",
      "U+1BB5", "U+1BB6", "U+1BB7", "U+1BB8", "U+1BB9">>,
    <<"U+1C40", "U+1C41", "U+1C42", "U+1C43", "U+1C44",
      "U+1C45", "U+1C46", "U+1C47", "U+1C48", "U+1C49">>,
    <<"U+1C50", "U+1C51", "U+1C52", "U+1C53", "U+1C54",
      "U+1C55", "U+1C56", "U+1C57", "U+1C58", "U+1C59">>,
    <<"U+A620", "U+A621", "U+A622", "U+A623", "U+A624",
      "U+A625", "U+A626", "U+A627", "U+A628", "U+A629">>,
    <<"U+A8D0", "U+A8D1", "U+A8D2", "U+A8D3", "U+A8D4",
      "U+A8D5", "U+A8D6", "U+A8D7", "U+A8D8", "U+A8D9">>,
    <<"U+A900", "U+A901", "U+A902", "U+A903", "U+A904",
      "U+A905", "U+A906", "U+A907", "U+A908", "U+A909">>,
    <<"U+A9D0", "U+A9D1", "U+A9D2", "U+A9D3", "U+A9D4",
      "U+A9D5", "U+A9D6", "U+A9D7", "U+A9D8", "U+A9D9">>,
    <<"U+A9F0", "U+A9F1", "U+A9F2", "U+A9F3", "U+A9F4",
      "U+A9F5", "U+A9F6", "U+A9F7", "U+A9F8", "U+A9F9">>,
    <<"U+AA50", "U+AA51", "U+AA52", "U+AA53", "U+AA54",
      "U+AA55", "U+AA56", "U+AA57", "U+AA58", "U+AA59">>,
    <<"U+ABF0", "U+ABF1", "U+ABF2", "U+ABF3", "U+ABF4",
      "U+ABF5", "U+ABF6", "U+ABF7", "U+ABF8", "U+ABF9">>,
    <<"U+FF10", "U+FF11", "U+FF12", "U+FF13", "U+FF14",
      "U+FF15", "U+FF16", "U+FF17", "U+FF18", "U+FF19">>,
    <<"U+104A0", "U+104A1", "U+104A2", "U+104A3", "U+104A4",
      "U+104A5", "U+104A6", "U+104A7", "U+104A8", "U+104A9">>,
    <<"U+10D30", "U+10D31", "U+10D32", "U+10D33", "U+10D34",
      "U+10D35", "U+10D36", "U+10D37", "U+10D38", "U+10D39">>,
    <<"U+11066", "U+11067", "U+11068", "U+11069", "U+1106A",
      "U+1106B", "U+1106C", "U+1106D", "U+1106E", "U+1106F">>,
    <<"U+110F0", "U+110F1", "U+110F2", "U+110F3", "U+110F4",
      "U+110F5", "U+110F6", "U+110F7", "U+110F8", "U+110F9">>,
    <<"U+11136", "U+11137", "U+11138", "U+11139", "U+1113A",
      "U+1113B", "U+1113C", "U+1113D", "U+1113E", "U+1113F">>,
    <<"U+111D0", "U+111D1", "U+111D2", "U+111D3", "U+111D4",
      "U+111D5", "U+111D6", "U+111D7", "U+111D8", "U+111D9">>,
    <<"U+112F0", "U+112F1", "U+112F2", "U+112F3", "U+112F4",
      "U+112F5", "U+112F6", "U+112F7", "U+112F8", "U+112F9">>,
    <<"U+11450", "U+11451", "U+11452", "U+11453", "U+11454",
      "U+11455", "U+11456", "U+11457", "U+11458", "U+11459">>,
    <<"U+114D0", "U+114D1", "U+114D2", "U+114D3", "U+114D4",
      "U+114D5", "U+114D6", "U+114D7", "U+114D8", "U+114D9">>,
    <<"U+11650", "U+11651", "U+11652", "U+11653", "U+11654",
      "U+11655", "U+11656", "U+11657", "U+11658", "U+11659">>,
    <<"U+116C0", "U+116C1", "U+116C2", "U+116C3", "U+116C4",
      "U+116C5", "U+116C6", "U+116C7", "U+116C8", "U+116C9">>,
    <<"U+11730", "U+11731", "U+11732", "U+11733", "U+11734",
      "U+11735", "U+11736", "U+11737", "U+11738", "U+11739">>,
    <<"U+118E0", "U+118E1", "U+118E2", "U+118E3", "U+118E4",
      "U+118E5", "U+118E6", "U+118E7", "U+118E8", "U+118E9">>,
    <<"U+11950", "U+11951", "U+11952", "U+11953", "U+11954",
      "U+11955", "U+11956", "U+11957", "U+11958", "U+11959">>,
    <<"U+11C50", "U+11C51", "U+11C52", "U+11C53", "U+11C54",
      "U+11C55", "U+11C56", "U+11C57", "U+11C58", "U+11C59">>,
    <<"U+11D50", "U+11D51", "U+11D52", "U+11D53", "U+11D54",
      "U+11D55", "U+11D56", "U+11D57", "U+11D58", "U+11D59">>,
    <<"U+11DA0", "U+11DA1", "U+11DA2", "U+11DA3", "U+11DA4",
      "U+11DA5", "U+11DA6", "U+11DA7", "U+11DA8", "U+11DA9">>,
    <<"U+16A60", "U+16A61", "U+16A62", "U+16A63", "U+16A64",
      "U+16A65", "U+16A66", "U+16A67", "U+16A68", "U+16A69">>,
    <<"U+16AC0", "U+16AC1", "U+16AC2", "U+16AC3", "U+16AC4",
      "U+16AC5", "U+16AC6", "U+16AC7", "U+16AC8", "U+16AC9">>,
    <<"U+16B50", "U+16B51", "U+16B52", "U+16B53", "U+16B54",
      "U+16B55", "U+16B56", "U+16B57", "U+16B58", "U+16B59">>,
    <<"U+1D7CE", "U+1D7CF", "U+1D7D0", "U+1D7D1", "U+1D7D2",
      "U+1D7D3", "U+1D7D4", "U+1D7D5", "U+1D7D6", "U+1D7D7">>,
    <<"U+1D7D8", "U+1D7D9", "U+1D7DA", "U+1D7DB", "U+1D7DC",
      "U+1D7DD", "U+1D7DE", "U+1D7DF", "U+1D7E0", "U+1D7E1">>,
    <<"U+1D7E2", "U+1D7E3", "U+1D7E4", "U+1D7E5", "U+1D7E6",
      "U+1D7E7", "U+1D7E8", "U+1D7E9", "U+1D7EA", "U+1D7EB">>,
    <<"U+1D7EC", "U+1D7ED", "U+1D7EE", "U+1D7EF", "U+1D7F0",
      "U+1D7F1", "U+1D7F2", "U+1D7F3", "U+1D7F4", "U+1D7F5">>,
    <<"U+1D7F6", "U+1D7F7", "U+1D7F8", "U+1D7F9", "U+1D7FA",
      "U+1D7FB", "U+1D7FC", "U+1D7FD", "U+1D7FE", "U+1D7FF">>,
    <<"U+1E140", "U+1E141", "U+1E142", "U+1E143", "U+1E144",
      "U+1E145", "U+1E146", "U+1E147", "U+1E148", "U+1E149">>,
    <<"U+1E2F0", "U+1E2F1", "U+1E2F2", "U+1E2F3", "U+1E2F4",
      "U+1E2F5", "U+1E2F6", "U+1E2F7", "U+1E2F8", "U+1E2F9">>,
    <<"U+1E950", "U+1E951", "U+1E952", "U+1E953", "U+1E954",
      "U+1E955", "U+1E956", "U+1E957", "U+1E958", "U+1E959">>,
    <<"U+1FBF0", "U+1FBF1", "U+1FBF2", "U+1FBF3", "U+1FBF4",
      "U+1FBF5", "U+1FBF6", "U+1FBF7", "U+1FBF8", "U+1FBF9">> >>

\* the digits int() reads: every decimal digit, with its value
IsAsciiDigit(c) == \E i \in 1..10 : Digits[i] = c
UnicodeDigitSet ==
    UNION {{UnicodeDigits[r][i] : i \in 1..10} : r \in DOMAIN UnicodeDigits}
IsUnicodeDigit(c) == c \in UnicodeDigitSet
IsDigit(c) == IsAsciiDigit(c) \/ IsUnicodeDigit(c)
DigitVal(c) ==
    IF IsAsciiDigit(c)
    THEN (CHOOSE i \in 1..10 : Digits[i] = c) - 1
    ELSE (CHOOSE i \in 1..10 :
              \E r \in DOMAIN UnicodeDigits : UnicodeDigits[r][i] = c) - 1

\* the value of a string of digits, most significant first
RECURSIVE IntOfDigits(_)
IntOfDigits(s) ==
    IF s = <<>> THEN 0
    ELSE IntOfDigits(SubSeq(s, 1, Len(s) - 1)) * 10 + DigitVal(s[Len(s)])

\* what int() makes of a string: the integer, or ValueError raised
Value(n) == [raises |-> FALSE, value |-> n]
ValueError == [raises |-> TRUE, value |-> 0]

\* the white space int() drops at the two ends of its argument: the six
\* of ASCII (space, tab, line feed, vertical tab, form feed, carriage
\* return) and nineteen beyond
WhiteSpace ==
    {" ", "\t", "\n", "", "\f", "\r", "U+0085", "U+00A0", "U+1680",
     "U+2000", "U+2001", "U+2002", "U+2003", "U+2004", "U+2005", "U+2006",
     "U+2007", "U+2008", "U+2009", "U+200A", "U+2028", "U+2029", "U+202F",
     "U+205F", "U+3000"}
IsSpace(c) == c \in WhiteSpace

\* s without the white space at its two ends
RECURSIVE strip(_)
strip(s) ==
    IF s = <<>> THEN s
    ELSE IF IsSpace(s[1]) THEN strip(Tail(s))
    ELSE IF IsSpace(s[Len(s)]) THEN strip(SubSeq(s, 1, Len(s) - 1))
    ELSE s

\* a decimal literal of int(): digits, single underscores between them
IsDecimal(s) ==
    /\ s # <<>>
    /\ IsDigit(s[1])
    /\ IsDigit(s[Len(s)])
    /\ \A i \in 1..Len(s) : IsDigit(s[i]) \/ s[i] = "_"
    /\ \A i \in 1..(Len(s) - 1) : ~(s[i] = "_" /\ s[i + 1] = "_")

\* Python int(s) of a string in base 10: white space around the literal is
\* dropped, one sign may precede the digits, single underscores may
\* separate digits, the digits are decimal digits of any script; anything
\* else raises ValueError
PyInt(s) ==
    LET t == strip(s)
        signed == t # <<>> /\ t[1] \in {"+", "-"}
        body == IF signed THEN Tail(t) ELSE t
        n == IntOfDigits(SelectSeq(body, IsDigit))
    IN  IF IsDecimal(body)
        THEN Value(IF signed /\ t[1] = "-" THEN 0 - n ELSE n)
        ELSE ValueError

\* register_num with identifiers lacking the 'D' prefix refused
register_num_requires_prefix(register_address) ==
    IF register_address # <<>> /\ register_address[1] = "D"
    THEN PyInt(Tail(register_address))
    ELSE ValueError

\* read_register lines 66-69: 'D' prefix stripped, anything else goes to int()
register_num(register_address) ==
    IF register_address # <<>> /\ register_address[1] = "D"
    THEN PyInt(Tail(register_address))
    ELSE PyInt(register_address)

\* ------------------------------------------------------ parameter table
\* rows of the parameters table when the collector is constructed
ParameterRows == <<
    [parameter_id |-> 1, register_address |-> <<"X", "2", "0">>,
     min_value |-> Rat(10, 1), max_value |-> NoneVal, is_active |-> TRUE],
    [parameter_id |-> 2, register_address |-> <<"D", "2", "0">>,
     min_value |-> Rat(20, 1), max_value |-> Rat(80, 1), is_active |-> TRUE],
    [parameter_id |-> 3, register_address |-> <<"2", "2">>,
     min_value |-> Rat(0, 1), max_value |-> Rat(100, 1), is_active |-> FALSE] >>

\* Parameter.query.filter_by(is_active=True).all()
RECURSIVE FilterActive(_)
FilterActive(rows) ==
    IF rows = <<>> THEN <<>>
    ELSE IF Head(rows).is_active
         THEN <<Head(rows)>> \o FilterActive(Tail(rows))
         ELSE FilterActive(Tail(rows))

\* raw 16-bit register contents the device may serve
DeviceRaws == {5000, 9000}

\* ---------------------------------------------------------- pure helpers
\* SensorData(parameter_id, value, timestamp, quality_code); cycle is a
\* history field, the cycle that created the row
SensorData(parameter_id, value, quality_code, cyc) ==
    [parameter_id |-> parameter_id, value |-> value,
     quality_code |-> quality_code, cycle |-> cyc]

\* Alert(parameter_id, message, severity, threshold_value, actual_value);
\* is_acknowledged takes the column default, acknowledged_by (0 for None)
\* and acknowledged_at are left unset
Alert(parameter_id, message, threshold_value, actual, cyc) ==
    [parameter_id |-> parameter_id, message |-> message,
     severity |-> "high", threshold_value |-> threshold_value,
     actual_value |-> actual, is_acknowledged |-> FALSE,
     acknowledged_by |-> 0, acknowledged_at |-> "None",
     cycle |-> cyc]

\* check_parameter_alerts with the comparisons including the bound
check_parameter_alerts_inclusive(parameter, value, cyc) ==
    (IF ~IsNone(parameter.min_value) /\ ~RatLess(parameter.min_value, value)
     THEN <<Alert(parameter.parameter_id, "below minimum",
                  parameter.min_value, value, cyc)>>
     ELSE <<>>)
    \o
    (IF ~IsNone(parameter.max_value) /\ ~RatLess(value, parameter.max_value)
     THEN <<Alert(parameter.parameter_id, "exceeds maximum",
                  parameter.max_value, value, cyc)>>
     ELSE <<>>)

\* check_parameter_alerts: the alerts added to the session, in order
check_parameter_alerts(parameter, value, cyc) ==
    (IF ~IsNone(parameter.min_value) /\ RatLess(value, parameter.min_value)
     THEN <<Alert(parameter.parameter_id, "below minimum",
                  parameter.min_value, value, cyc)>>
     ELSE <<>>)
    \o
    (IF ~IsNone(parameter.max_value) /\ RatLess(parameter.max_value, value)
     THEN <<Alert(parameter.parameter_id, "exceeds maximum",
                  parameter.max_value, value, cyc)>>
     ELSE <<>>)

\* collect_parameter_data with the else branch adding no record
collect_parameter_data_no_bad_record(parameter, value, cyc) ==
    IF ~IsNone(value)
    THEN [sensor_data |-> <<SensorData(parameter.parameter_id, value, 0,
                                       cyc)>>,
          alerts |-> check_parameter_alerts(parameter, value, cyc),
          ok |-> TRUE]
    ELSE [sensor_data |-> <<>>, alerts |-> <<>>, ok |-> FALSE]

\* collect_parameter_data with the thresholds also checked on the
\* defaulted value of a failed read
collect_parameter_data_alert_on_bad(parameter, value, cyc) ==
    IF ~IsNone(value)
    THEN [sensor_data |-> <<SensorData(parameter.parameter_id, value, 0,
                                       cyc)>>,
          alerts |-> check_parameter_alerts(parameter, value, cyc),
          ok |-> TRUE]
    ELSE [sensor_data |-> <<SensorData(parameter.parameter_id, Rat(0, 1), 2,
                                       cyc)>>,
          alerts |-> check_parameter_alerts(parameter, Rat(0, 1), cyc),
          ok |-> FALSE]

\* collect_parameter_data after read_register returned value (NoneVal for
\* None): what is added to the session and the value returned
collect_parameter_data(parameter, value, cyc) ==
    IF ~IsNone(value)
    THEN [sensor_data |-> <<SensorData(parameter.parameter_id, value, 0,
                                       cyc)>>,
          alerts |-> check_parameter_alerts(parameter, value, cyc),
          ok |-> TRUE]
    ELSE [sensor_data |-> <<SensorData(parameter.parameter_id, Rat(0, 1), 2,
                                       cyc)>>,
          alerts |-> <<>>,
          ok |-> FALSE]

\* broadcast_sensor_update / broadcast_alert: the event handed to socketio.emit
broadcast_sensor_update(parameter_id, value) ==
    [event |-> "sensor_data_update", parameter_id |-> parameter_id,
     value |-> value]

broadcast_alert(alert) ==
    [event |-> "alert_created", parameter_id |-> alert.parameter_id,
     message |-> alert.message, severity |-> alert.severity]

\* ------------------------------------------------------------------ state
VARIABLES
    runningOf,          \* per DataCollector made: its running
    threadOf,           \* per DataCollector: its collection_thread (0 = None)
    clientOf,           \* per DataCollector: the client its self.client
                        \* refers to (0 = None)
    clients,            \* per ModbusTcpClient made: "open" (connected) or
                        \* "closed"; "free" for one not made or forgotten
    instance,           \* per loop thread: the DataCollector it runs for
    conn,               \* per loop thread: the client whose connect() or
                        \* read_holding_registers() it is inside (0: none)
    pc,                 \* per loop thread: where it is in collection_loop
    parameters,         \* per thread: the cycle's snapshot of active rows
    idx,                \* per thread: position in the for loop
    successful_reads,   \* per thread: collect_all_data's counter
    session,            \* per thread: pending db.session additions
    cycle,              \* per thread: number of the cycle it is running
    last_read,          \* per thread: how its latest read_register ended
    store,              \* committed rows: sensor_data and alerts
    committed,          \* the commits of the cycles in their order: the
                        \* cycle and the number of tables there had been
    emitted,            \* events passed to socketio.emit
    ctl,                \* caller of start/stop: "idle", "join" (inside the
                        \* join), "disconnect" (before the disconnect)
    lastCall,           \* last start/stop call made and how it went
    nCalls,             \* start/stop calls made
    nThreads,           \* loop threads created
    nCycles,            \* cycles started
    cycleStatus,        \* per cycle: "none", "running", "committed",
                        \* "rolled_back", "no_parameters"
    nWrites,            \* dashboard and configuration writes made
    parameter_rows,     \* the parameters table
    tables,             \* every table parameter_rows has been, in order,
                        \* the present one last
    evaluation,         \* one threshold evaluation: input, result, done
    status,             \* the latest get_status call: what it read, what
                        \* it returned
    orphaned,           \* connected clients that nothing refers to any more
    reading,            \* one read_register call: input, result, done
    timing,             \* the loop's clock: calls of collect_all_data,
                        \* iterations ended, the latest sleep
    teardown,           \* disconnect calls in a row: client, outcomes
    data_collector,     \* _data_collector: 0 is None, k the k-th instance
    mock                \* the mock PLC: its registers and the latest poll of it

vars == <<runningOf, threadOf, clientOf, clients, instance, conn, pc,
          parameters, idx, successful_reads, session, cycle, last_read,
          store, committed, emitted, ctl, lastCall, nCalls, nThreads,
          nCycles, cycleStatus, nWrites, parameter_rows, tables, evaluation,
          status, orphaned, reading, timing, teardown, data_collector, mock>>

\* calls and cycles so far, and twice the writes
nEvents == nCalls + nCycles + 2 * nWrites

Threads == 1..MaxThreads
Cycles == 1..MaxCycles
Instances == 1..MaxInstances
\* the clients that can be referred to together: one by every self.client
\* and one by every thread inside a call
ClientIds == 1..(MaxInstances + MaxThreads)
EmptySession == [sensor_data |-> <<>>, alerts |-> <<>>]
\* what self.client can be: None, a connected client, one not connected
ClientStates == {"none", "open", "closed"}

\* DataCollector.client of instance k: "none" for None, else "open" for a
\* connected client and "closed" for one not connected
ClientState(k) == IF clientOf[k] = 0 THEN "none" ELSE clients[clientOf[k]]

\* the fields of the DataCollector that _data_collector refers to
running == data_collector # 0 /\ runningOf[data_collector]
collection_thread ==
    IF data_collector = 0 THEN 0 ELSE threadOf[data_collector]
client == IF data_collector = 0 THEN "none" ELSE ClientState(data_collector)

NoEvaluation ==
    [parameter |-> ParameterRows[1], raw |-> 0, alerts |-> <<>>,
     done |-> FALSE]

\* no get_status call made yet
NoStatus == [call |-> "none", running |-> FALSE, seen |-> {}, answer |-> <<>>]

\* read_register not yet returned
NoResult ==
    [kind |-> "none", value |-> NoneVal, requested |-> FALSE,
     register |-> -1]

\* no read_register call drawn
NoReading ==
    [client |-> "none", connected |-> FALSE, register_address |-> <<>>,
     o |-> [kind |-> "none", raw |-> 0], result |-> NoResult,
     done |-> FALSE]

\* no loop iteration timed
NoTiming ==
    [iterations |-> 0, cycles |-> 0, elapsed_time |-> 0, raised |-> FALSE,
     slept |-> 0, warned |-> FALSE]

\* no disconnect call made
NoTeardown ==
    [first |-> "none", client |-> "none", calls |-> <<>>, errors |-> <<>>]

\* the registers of the mock PLC that init_db configures a parameter for
MockRegisters == 20..27

\* no poll of the mock PLC under way
NoPolling == [pc |-> "idle", parameter |-> 0]

\* collect_parameter_data has not returned
NoPoll ==
    [register |-> 0, kind |-> "none", raw_value |-> 0, value |-> NoneVal,
     alerts |-> <<>>]

\* MockPLCServer.__init__: not running, every holding register 0, no
\* sensor thread; no poll of it made yet and none under way
NoMock ==
    [running |-> FALSE, serving |-> FALSE,
     hr |-> [r \in MockRegisters |-> 0], thread |-> "unborn",
     register |-> 20, written |-> {},
     polling |-> NoPolling, poll |-> NoPoll]

\* nothing started: no loop thread, no call made, nothing stored
Idle ==
    /\ runningOf = [k \in Instances |-> FALSE]
    /\ threadOf = [k \in Instances |-> 0]
    /\ instance = [t \in Threads |-> 0]
    /\ conn = [t \in Threads |-> 0]
    /\ pc = [t \in Threads |-> "unborn"]
    /\ parameters = [t \in Threads |-> <<>>]
    /\ idx = [t \in Threads |-> 0]
    /\ successful_reads = [t \in Threads |-> 0]
    /\ session = [t \in Threads |-> EmptySession]
    /\ cycle = [t \in Threads |-> 0]
    /\ last_read = [t \in Threads |-> "none"]
    /\ store = EmptySession
    /\ committed = <<>>
    /\ emitted = <<>>
    /\ ctl = "idle"
    /\ lastCall = "none"
    /\ nCalls = 0
    /\ nThreads = 0
    /\ nCycles = 0
    /\ cycleStatus = [c \in Cycles |-> "none"]
    /\ nWrites = 0
    /\ status = NoStatus
    /\ orphaned = 0
    /\ timing = NoTiming

\* DataCollector.__init__ and an empty store
Init ==
    /\ Idle
    /\ clientOf = [k \in Instances |-> 0]
    /\ clients = [o \in ClientIds |-> "free"]
    /\ parameter_rows = ParameterRows
    /\ tables = <<parameter_rows>>
    /\ evaluation = NoEvaluation
    /\ reading = NoReading
    /\ teardown = NoTeardown
    /\ data_collector = 1
    /\ mock = NoMock

\* ---------------------------------------------------------------- status
\* what run.py passes to initialize_data_collector
host == "127.0.0.1"
port == 5020
update_interval == 5

\* is_connected: self.client and self.client.connected, as the Python value
is_connected ==
    IF client = "none" THEN "None"
    ELSE IF client = "open" THEN "True" ELSE "False"

\* get_status: the dictionary returned, of the running read at line 250
\* and the connected read at line 251
get_status(r, c) ==
    [running |-> r, connected |-> c, host |-> host, port |-> port,
     update_interval |-> update_interval]

\* get_status line 250: self.running is read
GetStatusRunning ==
    /\ status.call # "reading"
    /\ status' = [call |-> "reading", running |-> running,
                  seen |-> {is_connected}, answer |-> <<>>]
    /\ UNCHANGED <<runningOf, threadOf, clientOf, clients, instance, conn, pc,
                   parameters, idx, successful_reads, session, cycle,
                   last_read, store, committed, emitted, ctl, lastCall,
                   nCalls, nThreads, nCycles, cycleStatus, nWrites,
                   parameter_rows, tables, evaluation, orphaned, reading,
                   timing, teardown, data_collector, mock>>

\* get_status lines 251-255: is_connected() is read and the dictionary
\* returned
GetStatusReturn ==
    /\ status.call = "reading"
    /\ status' = [status EXCEPT
           !.call = "returned",
           !.answer = <<get_status(status.running, is_connected)>>]
    /\ UNCHANGED <<runningOf, threadOf, clientOf, clients, instance, conn, pc,
                   parameters, idx, successful_reads, session, cycle,
                   last_read, store, committed, emitted, ctl, lastCall,
                   nCalls, nThreads, nCycles, cycleStatus, nWrites,
                   parameter_rows, tables, evaluation, orphaned, reading,
                   timing, teardown, data_collector, mock>>

\* a step of the collector under a get_status call that has read running:
\* seen keeps what is_connected was in every state of the collector,
\* since that read, in which running was as read
Observe ==
    status' = IF status.call = "reading" /\ running' = status.running
              THEN [status EXCEPT !.seen = @ \cup {is_connected'}]
              ELSE status

\* ------------------------------------------------- start / stop callers
\* start_collection without the test of self.running
StartCollection_no_guard ==
    /\ ctl = "idle"
    /\ data_collector # 0
    /\ nCalls + nWrites < MaxCalls
    /\ nEvents < MaxEvents
    /\ nCalls' = nCalls + 1
    /\ nThreads < MaxThreads
    /\ runningOf' = [runningOf EXCEPT ![data_collector] = TRUE]
    /\ threadOf' = [threadOf EXCEPT ![data_collector] = nThreads + 1]
    /\ instance' = [instance EXCEPT ![nThreads + 1] = data_collector]
    /\ pc' = [pc EXCEPT ![nThreads + 1] = "loop"]
    /\ nThreads' = nThreads + 1
    /\ lastCall' = "start"
    /\ UNCHANGED <<clientOf, clients, conn, parameters, idx, successful_reads,
                   session, cycle, last_read, store, committed, emitted, ctl,
                   nCycles, cycleStatus, nWrites, parameter_rows, tables,
                   evaluation, orphaned, reading, timing, teardown,
                   data_collector, mock>>
    /\ Observe

\* start_collection
StartCollection ==
    /\ ctl = "idle"
    /\ data_collector # 0
    /\ nCalls + nWrites < MaxCalls
    /\ nEvents < MaxEvents
    /\ nCalls' = nCalls + 1
    /\ IF running
       THEN /\ lastCall' = "start_noop"
            /\ UNCHANGED <<runningOf, threadOf, instance, pc, nThreads>>
       ELSE /\ nThreads < MaxThreads
            /\ runningOf' = [runningOf EXCEPT ![data_collector] = TRUE]
            /\ threadOf' = [threadOf EXCEPT ![data_collector] = nThreads + 1]
            /\ instance' = [instance EXCEPT ![nThreads + 1] = data_collector]
            /\ pc' = [pc EXCEPT ![nThreads + 1] = "loop"]
            /\ nThreads' = nThreads + 1
            /\ lastCall' = "start"
    /\ UNCHANGED <<clientOf, clients, conn, parameters, idx, successful_reads,
                   session, cycle, last_read, store, committed, emitted, ctl,
                   nCycles, cycleStatus, nWrites, parameter_rows, tables,
                   evaluation, orphaned, reading, timing, teardown,
                   data_collector, mock>>
    /\ Observe

\* stop_collection lines 232-238, up to the bounded join
StopCollection ==
    /\ ctl = "idle"
    /\ data_collector # 0
    /\ nCalls + nWrites < MaxCalls
    /\ nEvents < MaxEvents
    /\ nCalls' = nCalls + 1
    /\ IF ~running
       THEN /\ lastCall' = "stop_noop"
            /\ UNCHANGED <<runningOf, ctl>>
       ELSE /\ runningOf' = [runningOf EXCEPT ![data_collector] = FALSE]
            /\ ctl' = "join"
            /\ lastCall' = "stopping"
    /\ UNCHANGED <<threadOf, clientOf, clients, instance, conn, pc,
                   parameters, idx, successful_reads, session, cycle,
                   last_read, store, committed, emitted, nThreads, nCycles,
                   cycleStatus, nWrites, parameter_rows, tables, evaluation,
                   orphaned, reading, timing, teardown, data_collector, mock>>
    /\ Observe

\* disconnect with self.client set to None after the close()
disconnect_forgets_client(c, closeRaises) ==
    IF c # "none" /\ ~closeRaises THEN "none" ELSE c

\* disconnect: close() of an existing client; a close() that raises is
\* logged and leaves the client as it was
disconnect(c, closeRaises) ==
    IF c # "none" /\ ~closeRaises THEN "closed" ELSE c

\* disconnect lines 55-56: what becomes of an exception of close()
disconnect_error(c, closeRaises) ==
    IF c # "none" /\ closeRaises THEN "logged" ELSE "none"

\* where a loop thread can stay for the 5 s of the join: connecting,
\* waiting for the device or the database, sleeping
Blocked(t) ==
    pc[t] \in {"iterate", "connect", "request", "commit", "rollback",
              "sleep", "handler_sleep"}

\* stop_collection line 238: join(timeout=5) returns, because the thread
\* ended or because the 5 s ran out
StopJoinReturn ==
    /\ ctl = "join"
    /\ pc[collection_thread] = "done" \/ Blocked(collection_thread)
    /\ lastCall' = IF pc[collection_thread] = "done"
                   THEN "stop_joined" ELSE "stop_timeout"
    /\ ctl' = "disconnect"
    /\ UNCHANGED <<runningOf, threadOf, clientOf, clients, instance, conn, pc,
                   parameters, idx, successful_reads, session, cycle,
                   last_read, store, committed, emitted, nCalls, nThreads,
                   nCycles, cycleStatus, nWrites, parameter_rows, tables,
                   evaluation, status, orphaned, reading, timing, teardown,
                   data_collector, mock>>

\* stop_collection lines 240-241: disconnect() closes the client that
\* self.client refers to by now, and stop_collection returns
StopDisconnect ==
    /\ ctl = "disconnect"
    /\ \E closeRaises \in BOOLEAN :
         clients' =
             IF clientOf[data_collector] = 0 THEN clients
             ELSE [clients EXCEPT ![clientOf[data_collector]] =
                       disconnect(@, closeRaises)]
    /\ ctl' = "idle"
    /\ UNCHANGED <<runningOf, threadOf, clientOf, instance, conn, pc,
                   parameters, idx, successful_reads, session, cycle,
                   last_read, store, committed, emitted, lastCall, nCalls,
                   nThreads, nCycles, cycleStatus, nWrites, parameter_rows,
                   tables, evaluation, orphaned, reading, timing, teardown,
                   data_collector, mock>>
    /\ Observe

\* ----------------------------------------------------------- loop thread
\* WhileTest with the loop going on whatever self.running is
WhileTest_ignores_flag(t) ==
    /\ pc[t] = "loop"
    /\ IF FALSE
       THEN /\ pc' = [pc EXCEPT ![t] = "done"]
            /\ UNCHANGED <<cycle, nCycles>>
       ELSE /\ nCycles < MaxCycles
            /\ nEvents < MaxEvents
            /\ nCycles' = nCycles + 1
            /\ cycle' = [cycle EXCEPT ![t] = nCycles + 1]
            /\ pc' = [pc EXCEPT ![t] = "iterate"]
    /\ UNCHANGED <<runningOf, threadOf, clientOf, clients, instance, conn,
                   parameters, idx, successful_reads, session, last_read,
                   store, committed, emitted, ctl, lastCall, nCalls, nThreads,
                   cycleStatus, nWrites, parameter_rows, tables, evaluation,
                   status, orphaned, reading, timing, teardown,
                   data_collector, mock>>

\* collection_loop line 196: the while test, on the running of the
\* thread's own DataCollector; a thread that finds it true is committed to
\* one more iteration, the next in number
WhileTest(t) ==
    /\ pc[t] = "loop"
    /\ IF ~runningOf[instance[t]]
       THEN /\ pc' = [pc EXCEPT ![t] = "done"]
            /\ UNCHANGED <<cycle, nCycles>>
       ELSE /\ nCycles < MaxCycles
            /\ nEvents < MaxEvents
            /\ nCycles' = nCycles + 1
            /\ cycle' = [cycle EXCEPT ![t] = nCycles + 1]
            /\ pc' = [pc EXCEPT ![t] = "iterate"]
    /\ UNCHANGED <<runningOf, threadOf, clientOf, clients, instance, conn,
                   parameters, idx, successful_reads, session, last_read,
                   store, committed, emitted, ctl, lastCall, nCalls, nThreads,
                   cycleStatus, nWrites, parameter_rows, tables, evaluation,
                   status, orphaned, reading, timing, teardown,
                   data_collector, mock>>

\* collection_loop lines 197-201 and collect_all_data up to the for loop:
\* the call of collect_all_data and its query for the active parameters.
\* A query that raises takes collect_all_data to its except branch and to
\* the rollback.
LoopTop(t) ==
    /\ pc[t] = "iterate"
    /\ timing' = [timing EXCEPT !.cycles = @ + 1]
    /\ \E queryRaises \in BOOLEAN :
         IF queryRaises
         THEN /\ pc' = [pc EXCEPT ![t] = "rollback"]
              /\ UNCHANGED <<parameters, idx, successful_reads, cycle,
                             cycleStatus>>
         ELSE /\ parameters' = [parameters EXCEPT ![t] =
                                      FilterActive(parameter_rows)]
              /\ IF FilterActive(parameter_rows) = <<>>
                 THEN /\ pc' = [pc EXCEPT ![t] = "sleep"]
                      /\ cycleStatus' = [cycleStatus EXCEPT
                             ![cycle[t]] = "no_parameters"]
                      /\ cycle' = [cycle EXCEPT ![t] = 0]
                      /\ UNCHANGED <<idx, successful_reads>>
                 ELSE /\ pc' = [pc EXCEPT ![t] = "collect"]
                      /\ idx' = [idx EXCEPT ![t] = 1]
                      /\ successful_reads' =
                           [successful_reads EXCEPT ![t] = 0]
                      /\ cycleStatus' = [cycleStatus EXCEPT
                             ![cycle[t]] = "running"]
                      /\ UNCHANGED cycle
    /\ UNCHANGED <<runningOf, threadOf, clientOf, clients, instance, conn,
                   session, last_read, store, committed, emitted, ctl,
                   lastCall, nCalls, nThreads, nCycles, nWrites,
                   parameter_rows, tables, evaluation, status, orphaned,
                   reading, teardown, data_collector, mock>>

\* read_register line 60: is there a connected client?  If not, connect()
\* is called
TestClient(t) ==
    /\ pc[t] = "collect"
    /\ pc' = [pc EXCEPT ![t] =
           IF ClientState(instance[t]) = "open"
           THEN "request_call" ELSE "bind"]
    /\ UNCHANGED <<runningOf, threadOf, clientOf, clients, instance, conn,
                   parameters, idx, successful_reads, session, cycle,
                   last_read, store, committed, emitted, ctl, lastCall,
                   nCalls, nThreads, nCycles, cycleStatus, nWrites,
                   parameter_rows, tables, evaluation, status, orphaned,
                   reading, timing, teardown, data_collector, mock>>

\* connect line 35: self.client is bound to a new client, not yet
\* connected.  The client it referred to is forgotten unless a thread is
\* inside a call of it; forgotten while connected, its connection stays
\* open.  The new client takes the first name not in use.
NewClient(t) ==
    /\ pc[t] = "bind"
    /\ LET k == instance[t]
           old == clientOf[k]
           kept == {clientOf[j] : j \in Instances \ {k}}
                       \cup {conn[u] : u \in Threads}
           new == CHOOSE o \in ClientIds \ kept :
                      \A m \in ClientIds \ kept : o <= m
           forgotten == old # 0 /\ old \notin kept
       IN  /\ clientOf' = [clientOf EXCEPT ![k] = new]
           /\ clients' = [o \in ClientIds |->
                  IF o = new THEN "closed"
                  ELSE IF o = old /\ forgotten THEN "free"
                  ELSE clients[o]]
           /\ orphaned' = orphaned +
                  (IF forgotten /\ clients[old] = "open" THEN 1 ELSE 0)
    /\ pc' = [pc EXCEPT ![t] = "connect_call"]
    /\ UNCHANGED <<runningOf, threadOf, instance, conn, parameters, idx,
                   successful_reads, session, cycle, last_read, store,
                   committed, emitted, ctl, lastCall, nCalls, nThreads,
                   nCycles, cycleStatus, nWrites, parameter_rows, tables,
                   evaluation, reading, timing, teardown, data_collector,
                   mock>>
    /\ Observe

\* connect line 36: connect() is called on the client self.client refers
\* to by now
ConnectCall(t) ==
    /\ pc[t] = "connect_call"
    /\ conn' = [conn EXCEPT ![t] = clientOf[instance[t]]]
    /\ pc' = [pc EXCEPT ![t] = "connect"]
    /\ UNCHANGED <<runningOf, threadOf, clientOf, clients, instance,
                   parameters, idx, successful_reads, session, cycle,
                   last_read, store, committed, emitted, ctl, lastCall,
                   nCalls, nThreads, nCycles, cycleStatus, nWrites,
                   parameter_rows, tables, evaluation, status, orphaned,
                   reading, timing, teardown, data_collector, mock>>

\* the call thread t is inside returns and leaves its client in state: a
\* client that neither a self.client nor another call refers to is
\* forgotten; forgotten while connected, its connection stays open
CallReturns(t, state) ==
    LET o == conn[t]
        kept == {clientOf[k] : k \in Instances}
                    \cup {conn[u] : u \in Threads \ {t}}
    IN  /\ conn' = [conn EXCEPT ![t] = 0]
        /\ clients' = [clients EXCEPT ![o] =
               IF o \in kept THEN state ELSE "free"]
        /\ orphaned' = orphaned +
               (IF o \notin kept /\ state = "open" THEN 1 ELSE 0)

\* FinishParameter with an alert suppressed while the store holds an
\* unacknowledged alert of the same parameter and bound
FinishParameter_dedup(t, value, read_result) ==
    LET r == collect_parameter_data(parameters[t][idx[t]], value, cycle[t])
        fresh == SelectSeq(r.alerts, LAMBDA a :
                     ~\E k \in DOMAIN store.alerts :
                         /\ store.alerts[k].parameter_id = a.parameter_id
                         /\ store.alerts[k].message = a.message
                         /\ ~store.alerts[k].is_acknowledged)
    IN  /\ last_read' = [last_read EXCEPT ![t] = read_result]
        /\ session' = [session EXCEPT ![t] =
               [sensor_data |-> session[t].sensor_data \o r.sensor_data,
                alerts |-> session[t].alerts \o fresh]]
        /\ successful_reads' = [successful_reads EXCEPT ![t] =
               IF r.ok THEN @ + 1 ELSE @]
        /\ idx' = [idx EXCEPT ![t] = @ + 1]
        /\ pc' = [pc EXCEPT ![t] =
               IF idx[t] = Len(parameters[t]) THEN "commit" ELSE "collect"]

\* FinishParameter with a failed read leaving the for loop
FinishParameter_break_on_failure(t, value, read_result) ==
    LET r == collect_parameter_data(parameters[t][idx[t]], value, cycle[t])
    IN  /\ last_read' = [last_read EXCEPT ![t] = read_result]
        /\ session' = [session EXCEPT ![t] =
               [sensor_data |-> session[t].sensor_data \o r.sensor_data,
                alerts |-> session[t].alerts \o r.alerts]]
        /\ successful_reads' = [successful_reads EXCEPT ![t] =
               IF r.ok THEN @ + 1 ELSE @]
        /\ idx' = [idx EXCEPT ![t] = @ + 1]
        /\ pc' = [pc EXCEPT ![t] =
               IF idx[t] = Len(parameters[t]) \/ ~r.ok
               THEN "commit" ELSE "collect"]

\* the rest of collect_parameter_data and the for loop's step, once
\* read_register has returned value
FinishParameter(t, value, read_result) ==
    LET r == collect_parameter_data(parameters[t][idx[t]], value, cycle[t])
    IN  /\ last_read' = [last_read EXCEPT ![t] = read_result]
        /\ session' = [session EXCEPT ![t] =
               [sensor_data |-> session[t].sensor_data \o r.sensor_data,
                alerts |-> session[t].alerts \o r.alerts]]
        /\ successful_reads' = [successful_reads EXCEPT ![t] =
               IF r.ok THEN @ + 1 ELSE @]
        /\ idx' = [idx EXCEPT ![t] = @ + 1]
        /\ pc' = [pc EXCEPT ![t] =
               IF idx[t] = Len(parameters[t]) THEN "commit" ELSE "collect"]

\* connect lines 36-47: the connect() the thread is inside returns, on the
\* client it was called on.  A connect() that raises is logged and, like
\* one that returns False, makes read_register return None.
Connect(t) ==
    /\ pc[t] = "connect"
    /\ \E connected \in BOOLEAN :
         /\ CallReturns(t, IF connected THEN "open" ELSE "closed")
         /\ IF connected
            THEN /\ pc' = [pc EXCEPT ![t] = "request_call"]
                 /\ UNCHANGED <<session, successful_reads, idx, last_read>>
            ELSE FinishParameter(t, NoneVal, "connect_failed")
    /\ UNCHANGED <<runningOf, threadOf, clientOf, instance, parameters, cycle,
                   store, committed, emitted, ctl, lastCall, nCalls, nThreads,
                   nCycles, cycleStatus, nWrites, parameter_rows, tables,
                   evaluation, reading, timing, teardown, data_collector,
                   mock>>
    /\ Observe

\* what the device and the transport may answer to one request
ReadOutcomes ==
    {[kind |-> "error_response", raw |-> 0],
     [kind |-> "exception", raw |-> 0],
     [kind |-> "exception_closed", raw |-> 0]}
    \cup {[kind |-> "registers", raw |-> r] : r \in DeviceRaws}

\* read_register with an error response answered by 0 instead of None
read_register_zero_on_error(connected, register_address, o) ==
    LET num == register_num(register_address)
    IN  IF ~connected
        THEN [kind |-> "connect_failed", value |-> NoneVal,
              requested |-> FALSE, register |-> -1]
        ELSE IF num.raises
        THEN [kind |-> "bad_identifier", value |-> NoneVal,
              requested |-> FALSE, register |-> -1]
        ELSE IF o.kind = "registers"
        THEN [kind |-> "ok", value |-> actual_value(o.raw),
              requested |-> TRUE, register |-> num.value]
        ELSE IF o.kind = "error_response"
        THEN [kind |-> "error_response", value |-> Rat(0, 1),
              requested |-> TRUE, register |-> num.value]
        ELSE [kind |-> "exception", value |-> NoneVal,
              requested |-> TRUE, register |-> num.value]

\* read_register: what it returns (value, NoneVal for None), with how it
\* ended, whether a request went out and for which register.  connected:
\* a connected client was there at line 60 or connect() made one; o: the
\* answer to the request.
read_register(connected, register_address, o) ==
    LET num == register_num(register_address)
    IN  IF ~connected
        THEN [kind |-> "connect_failed", value |-> NoneVal,
              requested |-> FALSE, register |-> -1]
        ELSE IF num.raises
        THEN [kind |-> "bad_identifier", value |-> NoneVal,
              requested |-> FALSE, register |-> -1]
        ELSE IF o.kind = "registers"
        THEN [kind |-> "ok", value |-> actual_value(o.raw),
              requested |-> TRUE, register |-> num.value]
        ELSE IF o.kind = "error_response"
        THEN [kind |-> "error_response", value |-> NoneVal,
              requested |-> TRUE, register |-> num.value]
        ELSE [kind |-> "exception", value |-> NoneVal,
              requested |-> TRUE, register |-> num.value]


\* Request with a request that raised tried again over a new connection
Request_retries(t) ==
    /\ pc[t] = "request"
    /\ \E o \in ReadOutcomes :
         LET r == read_register(TRUE,
                                parameters[t][idx[t]].register_address, o)
         IN  IF r.kind = "exception"
             THEN /\ CallReturns(t, "closed")
                  /\ pc' = [pc EXCEPT ![t] = "bind"]
                  /\ UNCHANGED <<session, successful_reads, idx, last_read>>
             ELSE /\ CallReturns(t, "open")
                  /\ FinishParameter(t, r.value, r.kind)
    /\ UNCHANGED <<runningOf, threadOf, clientOf, instance, parameters, cycle,
                   store, committed, emitted, ctl, lastCall, nCalls, nThreads,
                   nCycles, cycleStatus, nWrites, parameter_rows, tables,
                   evaluation, reading, timing, teardown, data_collector,
                   mock>>
    /\ Observe

\* read_register lines 64-72: the identifier is decoded and
\* read_holding_registers called on the client self.client refers to by
\* now.  An identifier int() rejects takes read_register to its except
\* branch, no request made.
RequestCall(t) ==
    /\ pc[t] = "request_call"
    /\ IF register_num(parameters[t][idx[t]].register_address).raises
       THEN /\ FinishParameter(t, NoneVal, "bad_identifier")
            /\ UNCHANGED conn
       ELSE /\ conn' = [conn EXCEPT ![t] = clientOf[instance[t]]]
            /\ pc' = [pc EXCEPT ![t] = "request"]
            /\ UNCHANGED <<session, successful_reads, idx, last_read>>
    /\ UNCHANGED <<runningOf, threadOf, clientOf, clients, instance,
                   parameters, cycle, store, committed, emitted, ctl,
                   lastCall, nCalls, nThreads, nCycles, cycleStatus, nWrites,
                   parameter_rows, tables, evaluation, status, orphaned,
                   reading, timing, teardown, data_collector, mock>>

\* read_register lines 72-86: the request the thread is inside returns,
\* on the client it was made on, and the register is scaled.  An answer
\* leaves the client connected (on a client closed in the meantime the
\* library reopens the connection for the request); an exception leaves
\* it as it is or closed.
Request(t) ==
    /\ pc[t] = "request"
    /\ \E o \in ReadOutcomes :
         LET r == read_register(TRUE,
                                parameters[t][idx[t]].register_address, o)
         IN  /\ CallReturns(t, IF o.kind = "exception"
                               THEN clients[conn[t]]
                               ELSE IF o.kind = "exception_closed"
                               THEN "closed" ELSE "open")
             /\ FinishParameter(t, r.value, r.kind)
    /\ UNCHANGED <<runningOf, threadOf, clientOf, instance, parameters, cycle,
                   store, committed, emitted, ctl, lastCall, nCalls, nThreads,
                   nCycles, cycleStatus, nWrites, parameter_rows, tables,
                   evaluation, reading, timing, teardown, data_collector,
                   mock>>
    /\ Observe

\* Commit with a failed commit leaving the readings behind in the store
Commit_partial(t) ==
    /\ pc[t] = "commit"
    /\ \E commitRaises \in BOOLEAN :
         IF commitRaises
         THEN /\ pc' = [pc EXCEPT ![t] = "rollback"]
              /\ store' = [store EXCEPT !.sensor_data =
                               @ \o session[t].sensor_data]
              /\ UNCHANGED <<session, parameters, idx, successful_reads,
                             cycle, last_read, cycleStatus, committed>>
         ELSE /\ cycleStatus' = [cycleStatus EXCEPT
                     ![cycle[t]] = "committed"]
              /\ store' = [sensor_data |->
                               store.sensor_data \o session[t].sensor_data,
                           alerts |-> store.alerts \o session[t].alerts]
              /\ committed' = Append(committed,
                     [cycle |-> cycle[t], table |-> Len(tables)])
              /\ session' = [session EXCEPT ![t] = EmptySession]
              /\ pc' = [pc EXCEPT ![t] = "sleep"]
              /\ parameters' = [parameters EXCEPT ![t] = <<>>]
              /\ idx' = [idx EXCEPT ![t] = 0]
              /\ successful_reads' = [successful_reads EXCEPT ![t] = 0]
              /\ cycle' = [cycle EXCEPT ![t] = 0]
              /\ last_read' = [last_read EXCEPT ![t] = "none"]
    /\ UNCHANGED <<runningOf, threadOf, clientOf, clients, instance, conn,
                   emitted, ctl, lastCall, nCalls, nThreads, nCycles, nWrites,
                   parameter_rows, tables, evaluation, status, orphaned,
                   reading, timing, teardown, data_collector, mock>>

\* Commit with the readings of the cycle replacing the stored ones
Commit_replaces(t) ==
    /\ pc[t] = "commit"
    /\ \E commitRaises \in BOOLEAN :
         IF commitRaises
         THEN /\ pc' = [pc EXCEPT ![t] = "rollback"]
              /\ UNCHANGED store
              /\ UNCHANGED <<session, parameters, idx, successful_reads,
                             cycle, last_read, cycleStatus, committed>>
         ELSE /\ cycleStatus' = [cycleStatus EXCEPT
                     ![cycle[t]] = "committed"]
              /\ store' = [sensor_data |-> session[t].sensor_data,
                           alerts |-> store.alerts \o session[t].alerts]
              /\ committed' = Append(committed,
                     [cycle |-> cycle[t], table |-> Len(tables)])
              /\ session' = [session EXCEPT ![t] = EmptySession]
              /\ pc' = [pc EXCEPT ![t] = "sleep"]
              /\ parameters' = [parameters EXCEPT ![t] = <<>>]
              /\ idx' = [idx EXCEPT ![t] = 0]
              /\ successful_reads' = [successful_reads EXCEPT ![t] = 0]
              /\ cycle' = [cycle EXCEPT ![t] = 0]
              /\ last_read' = [last_read EXCEPT ![t] = "none"]
    /\ UNCHANGED <<runningOf, threadOf, clientOf, clients, instance, conn,
                   emitted, ctl, lastCall, nCalls, nThreads, nCycles, nWrites,
                   parameter_rows, tables, evaluation, status, orphaned,
                   reading, timing, teardown, data_collector, mock>>

\* collect_all_data lines 181-183: db.session.commit() stores everything
\* pending in the thread's session; when it raises, the except branch is
\* taken to the rollback
Commit(t) ==
    /\ pc[t] = "commit"
    /\ \E commitRaises \in BOOLEAN :
         IF commitRaises
         THEN /\ pc' = [pc EXCEPT ![t] = "rollback"]
              /\ UNCHANGED store
              /\ UNCHANGED <<session, parameters, idx, successful_reads,
                             cycle, last_read, cycleStatus, committed>>
         ELSE /\ cycleStatus' = [cycleStatus EXCEPT
                     ![cycle[t]] = "committed"]
              /\ store' = [sensor_data |->
                               store.sensor_data \o session[t].sensor_data,
                           alerts |-> store.alerts \o session[t].alerts]
              /\ committed' = Append(committed,
                     [cycle |-> cycle[t], table |-> Len(tables)])
              /\ session' = [session EXCEPT ![t] = EmptySession]
              /\ pc' = [pc EXCEPT ![t] = "sleep"]
              /\ parameters' = [parameters EXCEPT ![t] = <<>>]
              /\ idx' = [idx EXCEPT ![t] = 0]
              /\ successful_reads' = [successful_reads EXCEPT ![t] = 0]
              /\ cycle' = [cycle EXCEPT ![t] = 0]
              /\ last_read' = [last_read EXCEPT ![t] = "none"]
    /\ UNCHANGED <<runningOf, threadOf, clientOf, clients, instance, conn,
                   emitted, ctl, lastCall, nCalls, nThreads, nCycles, nWrites,
                   parameter_rows, tables, evaluation, status, orphaned,
                   reading, timing, teardown, data_collector, mock>>

\* Rollback with an exception that reaches the loop's handler ending the
\* loop
Rollback_fault_ends_loop(t) ==
    /\ pc[t] = "rollback"
    /\ \E rollbackRaises \in BOOLEAN :
         pc' = [pc EXCEPT ![t] =
             IF rollbackRaises THEN "done" ELSE "sleep"]
    /\ session' = [session EXCEPT ![t] = EmptySession]
    /\ cycleStatus' = [cycleStatus EXCEPT ![cycle[t]] = "rolled_back"]
    /\ parameters' = [parameters EXCEPT ![t] = <<>>]
    /\ idx' = [idx EXCEPT ![t] = 0]
    /\ successful_reads' = [successful_reads EXCEPT ![t] = 0]
    /\ cycle' = [cycle EXCEPT ![t] = 0]
    /\ last_read' = [last_read EXCEPT ![t] = "none"]
    /\ UNCHANGED <<runningOf, threadOf, clientOf, clients, instance, conn,
                   store, committed, emitted, ctl, lastCall, nCalls, nThreads,
                   nCycles, nWrites, parameter_rows, tables, evaluation,
                   status, orphaned, reading, timing, teardown,
                   data_collector, mock>>

\* collect_all_data lines 185-190: db.session.rollback() discards what is
\* pending and collect_all_data returns.  When the rollback raises as
\* well, the exception reaches the handler of the loop, which logs it
\* and sleeps a whole interval (line 217, "handler_sleep").  The session
\* is SQLAlchemy's: its rollback expunges the pending objects in a
\* finally clause, hence also when the rollback of the connection raises.
Rollback(t) ==
    /\ pc[t] = "rollback"
    /\ \E rollbackRaises \in BOOLEAN :
         pc' = [pc EXCEPT ![t] =
             IF rollbackRaises THEN "handler_sleep" ELSE "sleep"]
    /\ session' = [session EXCEPT ![t] = EmptySession]
    /\ cycleStatus' = [cycleStatus EXCEPT ![cycle[t]] = "rolled_back"]
    /\ parameters' = [parameters EXCEPT ![t] = <<>>]
    /\ idx' = [idx EXCEPT ![t] = 0]
    /\ successful_reads' = [successful_reads EXCEPT ![t] = 0]
    /\ cycle' = [cycle EXCEPT ![t] = 0]
    /\ last_read' = [last_read EXCEPT ![t] = "none"]
    /\ UNCHANGED <<runningOf, threadOf, clientOf, clients, instance, conn,
                   store, committed, emitted, ctl, lastCall, nCalls, nThreads,
                   nCycles, nWrites, parameter_rows, tables, evaluation,
                   status, orphaned, reading, timing, teardown,
                   data_collector, mock>>

\* collection_loop lines 204-210, or line 217 in the handler: the sleep,
\* then back to the while test
Sleep(t) ==
    /\ pc[t] \in {"sleep", "handler_sleep"}
    /\ pc' = [pc EXCEPT ![t] = "loop"]
    /\ timing' = [timing EXCEPT !.iterations = @ + 1]
    /\ UNCHANGED <<runningOf, threadOf, clientOf, clients, instance, conn,
                   parameters, idx, successful_reads, session, cycle,
                   last_read, store, committed, emitted, ctl, lastCall,
                   nCalls, nThreads, nCycles, cycleStatus, nWrites,
                   parameter_rows, tables, evaluation, status, orphaned,
                   reading, teardown, data_collector, mock>>

\* ------------------------------------------------------------- dashboard
\* user_id of the logged-in user making the requests
current_user == 1

\* api_acknowledge_alert
AcknowledgeAlert(i) ==
    /\ nCalls + nWrites < MaxCalls
    /\ nEvents + 1 < MaxEvents
    /\ i \in 1..Len(store.alerts)
    /\ store' = [store EXCEPT !.alerts[i].is_acknowledged = TRUE,
                              !.alerts[i].acknowledged_by = current_user,
                              !.alerts[i].acknowledged_at = "utcnow"]
    /\ nWrites' = nWrites + 1
    /\ UNCHANGED <<runningOf, threadOf, clientOf, clients, instance, conn, pc,
                   parameters, idx, successful_reads, session, cycle,
                   last_read, committed, emitted, ctl, lastCall, nCalls,
                   nThreads, nCycles, cycleStatus, parameter_rows, tables,
                   evaluation, status, orphaned, reading, timing, teardown,
                   data_collector, mock>>

\* --------------------------------------------------------- configuration
\* The routes load and check with queries and write at their commit, and
\* other requests may commit in between: a request that commits now made
\* each of its queries on the table as it is now or as it was at an
\* earlier moment, a later query on no earlier table.
\* Parameter.query.get_or_404(parameter_id): the position of the row in
\* the table rows, 0 for the 404
get_or_404(rows, parameter_id) ==
    LET ks == {k \in DOMAIN rows : rows[k].parameter_id = parameter_id}
    IN  IF ks = {} THEN 0 ELSE CHOOSE k \in ks : \A m \in ks : k <= m

\* Parameter.query.filter_by(machine_id=..., register_address=...).first():
\* the position of the first row with the address, 0 for None (the rows
\* here are parameters of one machine)
existing_param(rows, register_address) ==
    LET ks == {k \in DOMAIN rows : rows[k].register_address = register_address}
    IN  IF ks = {} THEN 0 ELSE CHOOSE k \in ks : \A m \in ks : k <= m

\* the checks of create_parameter pass on the table rows
CreateAccepted(rows, register_address) ==
    /\ register_address # <<>>
    /\ existing_param(rows, register_address) = 0

\* the checks of edit_parameter pass on the table rows: the first row
\* with the address, if there is one, is the parameter itself
EditAccepted(rows, parameter_id, register_address) ==
    /\ register_address # <<>>
    /\ LET k == existing_param(rows, register_address)
       IN  IF k = 0 THEN TRUE ELSE rows[k].parameter_id = parameter_id

\* the key the database gives the next row: one more than the largest
\* key in the table (SQLite, the configured database)
NextParameterId ==
    LET ids == {parameter_rows[k].parameter_id : k \in DOMAIN parameter_rows}
    IN  IF ids = {} THEN 1
        ELSE 1 + CHOOSE m \in ids : \A n \in ids : n <= m

\* create_parameter with a form that passed its checks: the row is added
\* as active, with min_value and max_value as entered (None for an empty
\* field)
CreateParameter(register_address, min_value, max_value) ==
    /\ nCalls + nWrites < MaxCalls
    /\ nEvents + 1 < MaxEvents
    /\ \E b \in DOMAIN tables : CreateAccepted(tables[b], register_address)
    /\ parameter_rows' = Append(parameter_rows,
           [parameter_id |-> NextParameterId,
            register_address |-> register_address,
            min_value |-> min_value, max_value |-> max_value,
            is_active |-> TRUE])
    /\ tables' = Append(tables, parameter_rows')
    /\ nWrites' = nWrites + 1
    /\ UNCHANGED <<runningOf, threadOf, clientOf, clients, instance, conn, pc,
                   parameters, idx, successful_reads, session, cycle,
                   last_read, store, committed, emitted, ctl, lastCall,
                   nCalls, nThreads, nCycles, cycleStatus, evaluation, status,
                   orphaned, reading, timing, teardown, data_collector, mock>>

\* the UPDATE of a commit sets a column only when the value assigned to
\* the attribute is not the one it was loaded with; a column it does not
\* set keeps what the table holds
written(loaded, assigned, current) ==
    IF assigned = loaded THEN current ELSE assigned

\* edit_parameter with a form that passed its checks: the row is loaded
\* (line 180), the address checked (lines 197-201), and at the commit the
\* row takes of the register address, the bounds and the is_active box
\* of the form what differs from the row loaded
EditParameter(i, register_address, min_value, max_value, is_active) ==
    /\ nCalls + nWrites < MaxCalls
    /\ nEvents + 1 < MaxEvents
    /\ i \in 1..Len(parameter_rows)
    /\ \E a \in DOMAIN tables :
         LET id == parameter_rows[i].parameter_id
             k == get_or_404(tables[a], id)
             row == tables[a][k]
         IN  /\ k # 0
             /\ \E b \in a..Len(tables) :
                    EditAccepted(tables[b], id, register_address)
             /\ parameter_rows' = [parameter_rows EXCEPT
                    ![i].register_address =
                        written(row.register_address, register_address, @),
                    ![i].min_value = written(row.min_value, min_value, @),
                    ![i].max_value = written(row.max_value, max_value, @),
                    ![i].is_active = written(row.is_active, is_active, @)]
    /\ tables' = IF parameter_rows' = parameter_rows THEN tables
                 ELSE Append(tables, parameter_rows')
    /\ nWrites' = nWrites + 1
    /\ UNCHANGED <<runningOf, threadOf, clientOf, clients, instance, conn, pc,
                   parameters, idx, successful_reads, session, cycle,
                   last_read, store, committed, emitted, ctl, lastCall,
                   nCalls, nThreads, nCycles, cycleStatus, evaluation, status,
                   orphaned, reading, timing, teardown, data_collector, mock>>

\* the forms an administrator submits for a row: the row as it is with the
\* is_active box cleared; the register address changed to D21 and the
\* maximum to 95 with the box ticked; the minimum emptied
EditForms(row) ==
    {[register_address |-> row.register_address,
      min_value |-> row.min_value, max_value |-> row.max_value,
      is_active |-> FALSE],
     [register_address |-> <<"D", "2", "1">>,
      min_value |-> row.min_value, max_value |-> Rat(95, 1),
      is_active |-> TRUE],
     [register_address |-> row.register_address,
      min_value |-> NoneVal, max_value |-> row.max_value,
      is_active |-> row.is_active]}

\* the form submitted for a new parameter
CreateForms ==
    {[register_address |-> <<"D", "2", "3">>,
      min_value |-> Rat(1, 1), max_value |-> Rat(2, 1)]}

\* the cycles that were the first n to commit
CommittedBy(n) == {committed[j].cycle : j \in 1..n}

\* the number of cycles that had committed when the table became tables[a]
CommittedBefore(a) ==
    Cardinality({j \in DOMAIN committed : committed[j].table < a})

\* the keys of the rows the table holds or has held
ParameterIds ==
    UNION {{tables[a][k].parameter_id : k \in DOMAIN tables[a]} :
           a \in DOMAIN tables}

\* delete_parameter: the row is loaded (line 234), db.session.delete
\* (line 238) loads the readings of the parameter and then its alerts, and
\* the commit (line 239) deletes the rows loaded and the parameter.  The
\* rows of a cycle that commits after a load are not among them.  Another
\* request may have deleted the parameter since the row was loaded: the
\* DELETE of the parameter then matches no row, which SQLAlchemy only
\* warns of, and the readings and alerts loaded are deleted all the same.
\* A delete may be the request that exhausts MaxEvents.
DeleteParameter(parameter_id) ==
    /\ nCalls + nWrites < MaxCalls
    /\ nEvents < MaxEvents
    /\ \E a \in DOMAIN tables :
         /\ get_or_404(tables[a], parameter_id) # 0
         /\ \E n1 \in CommittedBefore(a)..Len(committed) :
              \E n2 \in n1..Len(committed) :
                /\ parameter_rows' =
                       SelectSeq(parameter_rows,
                                 LAMBDA r : r.parameter_id # parameter_id)
                /\ store' =
                       [sensor_data |-> SelectSeq(store.sensor_data,
                            LAMBDA r : ~(/\ r.parameter_id = parameter_id
                                         /\ r.cycle \in CommittedBy(n1))),
                        alerts |-> SelectSeq(store.alerts,
                            LAMBDA r : ~(/\ r.parameter_id = parameter_id
                                         /\ r.cycle \in CommittedBy(n2)))]
    /\ tables' = IF parameter_rows' = parameter_rows THEN tables
                 ELSE Append(tables, parameter_rows')
    /\ nWrites' = nWrites + 1
    /\ UNCHANGED <<runningOf, threadOf, clientOf, clients, instance, conn, pc,
                   parameters, idx, successful_reads, session, cycle,
                   last_read, committed, emitted, ctl, lastCall, nCalls,
                   nThreads, nCycles, cycleStatus, evaluation, status,
                   orphaned, reading, timing, teardown, data_collector, mock>>

\* the alerts an acknowledgement request is made for
UnacknowledgedAlerts ==
    {i \in 1..Len(store.alerts) : ~store.alerts[i].is_acknowledged}

\* one step of loop thread t
ThreadStep(t) ==
    \/ WhileTest(t)
    \/ LoopTop(t)
    \/ TestClient(t)
    \/ NewClient(t)
    \/ ConnectCall(t)
    \/ Connect(t)
    \/ RequestCall(t)
    \/ Request(t)
    \/ Commit(t)
    \/ Rollback(t)
    \/ Sleep(t)

\* the collector alone: its callers and its loop threads, the tables left
\* to it
NextCollector ==
    \/ StartCollection
    \/ StopCollection
    \/ StopJoinReturn
    \/ StopDisconnect
    \/ \E t \in Threads : ThreadStep(t)

Next ==
    \/ NextCollector
    \/ \E i \in UnacknowledgedAlerts : AcknowledgeAlert(i)
    \/ \E i \in DOMAIN parameter_rows :
         \E f \in EditForms(parameter_rows[i]) :
             EditParameter(i, f.register_address, f.min_value,
                           f.max_value, f.is_active)
    \/ \E f \in CreateForms :
         CreateParameter(f.register_address, f.min_value, f.max_value)
    \/ \E parameter_id \in ParameterIds : DeleteParameter(parameter_id)

Spec == Init /\ [][Next]_vars

\* the collector and a caller of get_status
NextStatus ==
    \/ NextCollector
    \/ GetStatusRunning
    \/ GetStatusReturn

SpecStatus == Init /\ [][NextStatus]_vars

\* the collector alone over MaxFairEvents calls and cycles
NextFair ==
    \/ StartCollection /\ nEvents' <= MaxFairEvents
    \/ StopCollection /\ nEvents' <= MaxFairEvents
    \/ StopJoinReturn
    \/ StopDisconnect
    \/ \E t \in Threads : WhileTest(t) /\ nEvents' <= MaxFairEvents
    \/ \E t \in Threads : LoopTop(t)
    \/ \E t \in Threads : TestClient(t)
    \/ \E t \in Threads : NewClient(t)
    \/ \E t \in Threads : ConnectCall(t)
    \/ \E t \in Threads : Connect(t)
    \/ \E t \in Threads : RequestCall(t)
    \/ \E t \in Threads : Request(t)
    \/ \E t \in Threads : Commit(t)
    \/ \E t \in Threads : Rollback(t)
    \/ \E t \in Threads : Sleep(t)

\* every loop thread gets to run: the interpreter schedules it, connects
\* and requests end within the client's timeout, commits and sleeps end
SpecFair ==
    /\ Init
    /\ [][NextFair]_vars
    /\ \A t \in Threads :
           WF_vars(ThreadStep(t) /\ nEvents' <= MaxFairEvents)

\* ----------------------------------------------------------- properties
\* thread t is inside collect_all_data, between its query and its commit
InCycle(t) ==
    pc[t] \in {"collect", "bind", "connect_call", "connect", "request_call",
               "request", "commit"}
Alive(t) == pc[t] \notin {"unborn", "done"}
GoodCount(rs) == Cardinality({i \in DOMAIN rs : rs[i].quality_code = 0})
ReadFailures == {"connect_failed", "bad_identifier", "error_response",
                 "exception"}

\* C1: at no time are two acquisition cycles of the collector in progress
\* together: at most one loop thread is inside collect_all_data.
C1_NoConcurrentCycles ==
    \A t1 \in Threads, t2 \in Threads :
        (InCycle(t1) /\ InCycle(t2)) => t1 = t2

\* C2: inside a cycle every parameter of the snapshot before the current
\* position has been processed whether or not its read failed, the for
\* loop is left only with the whole snapshot processed, and the success
\* count is the number of parameters read successfully.
C2_FailureIsolated ==
    \A t \in Threads :
        InCycle(t) =>
            LET rs == session[t].sensor_data
            IN  /\ Len(rs) = idx[t] - 1
                /\ \A i \in 1..Len(rs) :
                       rs[i].parameter_id = parameters[t][i].parameter_id
                /\ successful_reads[t] = GoodCount(rs)
                /\ idx[t] > 1 =>
                       (last_read[t] = "ok" <=> rs[Len(rs)].quality_code = 0)
                /\ IF pc[t] = "commit"
                   THEN Len(rs) = Len(parameters[t])
                   ELSE idx[t] <= Len(parameters[t])

\* a cycle whose first read failed and whose second read succeeded
C2_Witness ==
    \E t \in Threads :
        /\ pc[t] = "commit"
        /\ Len(parameters[t]) = 2
        /\ session[t].sensor_data[1].quality_code = 2
        /\ session[t].sensor_data[2].quality_code = 0
        /\ successful_reads[t] = 1

\* C3: in every cycle each parameter of the snapshot gets exactly one
\* reading once it has been processed and none before, and the store never
\* holds two readings of one parameter from one cycle.
C3_ExactlyOneReading ==
    /\ \A t \in Threads :
           InCycle(t) =>
               \A i \in 1..Len(parameters[t]) :
                   Cardinality({j \in DOMAIN session[t].sensor_data :
                       /\ session[t].sensor_data[j].parameter_id =
                              parameters[t][i].parameter_id
                       /\ session[t].sensor_data[j].cycle = cycle[t]})
                   = IF i < idx[t] THEN 1 ELSE 0
    /\ \A i \in DOMAIN store.sensor_data, j \in DOMAIN store.sensor_data :
           (/\ store.sensor_data[i].parameter_id =
                   store.sensor_data[j].parameter_id
            /\ store.sensor_data[i].cycle = store.sensor_data[j].cycle)
           => i = j

\* a committed cycle with one failed and one successful read
C3_Witness ==
    \E i \in DOMAIN store.sensor_data, j \in DOMAIN store.sensor_data :
        /\ store.sensor_data[i].cycle = store.sensor_data[j].cycle
        /\ store.sensor_data[i].parameter_id # store.sensor_data[j].parameter_id
        /\ store.sensor_data[i].quality_code = 2
        /\ store.sensor_data[j].quality_code = 0

\* C4: right after a parameter whose read_register failed, the reading
\* added for it has value 0 and quality 2, and the session holds no alert
\* for that parameter.
C4_FailedReadBadNoAlert ==
    \A t \in Threads :
        (InCycle(t) /\ idx[t] > 1 /\ last_read[t] \in ReadFailures) =>
            LET p == parameters[t][idx[t] - 1]
                rs == session[t].sensor_data
            IN  /\ Len(rs) >= 1
                /\ rs[Len(rs)].parameter_id = p.parameter_id
                /\ rs[Len(rs)].quality_code = 2
                /\ RatEq(rs[Len(rs)].value, Rat(0, 1))
                /\ \A k \in DOMAIN session[t].alerts :
                       session[t].alerts[k].parameter_id # p.parameter_id

\* a Modbus error response for a parameter whose minimum is above 0
C4_Witness ==
    \E t \in Threads :
        /\ InCycle(t)
        /\ idx[t] > 1
        /\ last_read[t] = "error_response"
        /\ ~IsNone(parameters[t][idx[t] - 1].min_value)
        /\ RatLess(Rat(0, 1), parameters[t][idx[t] - 1].min_value)

\* C5: rows of a cycle are in the store only if that cycle's commit
\* succeeded, and a thread has something pending only inside a cycle or
\* before the rollback of one.  The commit step either stores the whole
\* session, empties it and goes on to the sleep, or leaves store and
\* session unchanged and goes on to the rollback; the rollback step leaves
\* the store unchanged, empties the session and goes on to a sleep.
C5_StoreOnlyCommitted ==
    /\ \A c \in Cycles :
           cycleStatus[c] # "committed" =>
               /\ \A i \in DOMAIN store.sensor_data :
                      store.sensor_data[i].cycle # c
               /\ \A i \in DOMAIN store.alerts : store.alerts[i].cycle # c
    /\ \A t \in Threads :
           ~(InCycle(t) \/ pc[t] = "rollback") => session[t] = EmptySession

C5_CommitStep ==
    \A t \in Threads :
        /\ (pc[t] = "commit" /\ pc'[t] # "commit") =>
               \/ /\ store' = store
                  /\ session'[t] = session[t]
                  /\ pc'[t] = "rollback"
               \/ /\ store' =
                         [sensor_data |->
                              store.sensor_data \o session[t].sensor_data,
                          alerts |-> store.alerts \o session[t].alerts]
                  /\ session'[t] = EmptySession
                  /\ pc'[t] = "sleep"
        /\ (pc[t] = "rollback" /\ pc'[t] # "rollback") =>
               /\ store' = store
               /\ session'[t] = EmptySession
               /\ pc'[t] \in {"sleep", "handler_sleep"}

C5_AtomicCommit == []C5_StoreOnlyCommitted /\ [][C5_CommitStep]_vars

\* the only loop thread committed a cycle after one of its cycles was
\* rolled back
C5_Witness ==
    \E c1 \in Cycles, c2 \in Cycles :
        /\ nThreads = 1
        /\ c1 < c2
        /\ cycleStatus[c1] = "rolled_back"
        /\ cycleStatus[c2] = "committed"
        /\ \E i \in DOMAIN store.sensor_data : store.sensor_data[i].cycle = c2

\* C6: after one evaluation the alerts are exactly: one "below minimum"
\* alert iff the minimum is set and the value is strictly below it, one
\* "exceeds maximum" alert iff the maximum is set and the value is strictly
\* above it, each of severity high with the bound as threshold_value and
\* the value as actual_value; for bounds 20/80, 19.99 gives one lower
\* alert, 80.01 one upper alert and 20, 50 and 80 none.
C6_ThresholdAlerts ==
    evaluation.done =>
        LET p == evaluation.parameter
            raw == evaluation.raw
            as == evaluation.alerts
            below == /\ ~IsNone(p.min_value)
                     /\ raw * p.min_value.den < p.min_value.num * 100
            above == /\ ~IsNone(p.max_value)
                     /\ raw * p.max_value.den > p.max_value.num * 100
            lows == {i \in DOMAIN as : as[i].message = "below minimum"}
            highs == {i \in DOMAIN as : as[i].message = "exceeds maximum"}
        IN  /\ Cardinality(lows) = (IF below THEN 1 ELSE 0)
            /\ Cardinality(highs) = (IF above THEN 1 ELSE 0)
            /\ Len(as) = Cardinality(lows) + Cardinality(highs)
            /\ \A i \in lows : /\ as[i].severity = "high"
                                /\ as[i].threshold_value = p.min_value
                                /\ RatEq(as[i].actual_value, Rat(raw, 100))
            /\ \A i \in highs : /\ as[i].severity = "high"
                                 /\ as[i].threshold_value = p.max_value
                                 /\ RatEq(as[i].actual_value, Rat(raw, 100))
            /\ (p.min_value = Rat(20, 1) /\ p.max_value = Rat(80, 1)) =>
                   /\ raw = 1999 => (Cardinality(lows) = 1 /\ highs = {})
                   /\ raw = 8001 => (Cardinality(highs) = 1 /\ lows = {})
                   /\ raw \in {2000, 5000, 8000} => as = <<>>

\* 19.99 evaluated against bounds 20/80
C6_Witness ==
    /\ evaluation.done
    /\ evaluation.parameter.min_value = Rat(20, 1)
    /\ evaluation.parameter.max_value = Rat(80, 1)
    /\ evaluation.raw = 1999
    /\ Len(evaluation.alerts) = 1

\* C7: alerts are never deduplicated: inside a cycle every good reading
\* pending that lies above the maximum (below the minimum) its parameter
\* has in the snapshot has exactly one pending alert of that bound with its
\* value and its cycle, and a reading within the bound has none, whatever
\* alerts the store holds already and whether they are acknowledged; the
\* commit stores them together (C5), so the stored alerts of a bound are
\* one for each committed cycle that read the parameter beyond it.
C7_NoDeduplication ==
    \A t \in Threads :
        InCycle(t) =>
            LET rs == session[t].sensor_data
                as == session[t].alerts
                Violates(i, message) ==
                    LET q == parameters[t][i]
                    IN  /\ rs[i].quality_code = 0
                        /\ IF message = "exceeds maximum"
                           THEN /\ ~IsNone(q.max_value)
                                /\ RatLess(q.max_value, rs[i].value)
                           ELSE /\ ~IsNone(q.min_value)
                                /\ RatLess(rs[i].value, q.min_value)
                AlertsOf(i, message) ==
                    {j \in DOMAIN as :
                        /\ as[j].parameter_id = rs[i].parameter_id
                        /\ as[j].message = message
                        /\ as[j].cycle = cycle[t]
                        /\ as[j].actual_value = rs[i].value}
            IN  \A i \in DOMAIN rs :
                    \A message \in {"exceeds maximum", "below minimum"} :
                        Cardinality(AlertsOf(i, message)) =
                            (IF Violates(i, message) THEN 1 ELSE 0)

\* two committed cycles raised the same alert, the first one acknowledged
\* before the second was committed or after
C7_Witness ==
    \E i \in DOMAIN store.alerts, j \in DOMAIN store.alerts :
        /\ i < j
        /\ store.alerts[i].parameter_id = store.alerts[j].parameter_id
        /\ store.alerts[i].message = store.alerts[j].message
        /\ store.alerts[i].cycle # store.alerts[j].cycle
        /\ store.alerts[i].is_acknowledged

\* C8: every committed reading has been published as a sensor_data_update
\* event and every committed alert as an alert_created event.
C8_EveryRowPublished ==
    /\ \A i \in DOMAIN store.sensor_data :
           \E k \in DOMAIN emitted :
               emitted[k] = broadcast_sensor_update(
                                store.sensor_data[i].parameter_id,
                                store.sensor_data[i].value)
    /\ \A i \in DOMAIN store.alerts :
           \E k \in DOMAIN emitted :
               emitted[k] = broadcast_alert(store.alerts[i])

\* C9: a start_collection call made while running changes nothing of the
\* collector and creates no thread; made while stopped it sets running and
\* creates exactly one loop thread, which becomes collection_thread.
C9_StartStep ==
    (nCalls' = nCalls + 1 /\ lastCall' \in {"start", "start_noop"}) =>
        IF running
        THEN UNCHANGED <<running, collection_thread, client, pc, parameters,
                         idx, successful_reads, session, cycle, store>>
        ELSE /\ running'
             /\ Cardinality({t \in Threads : pc[t] = "unborn"
                                             /\ pc'[t] # "unborn"}) = 1
             /\ \A t \in Threads : pc[t] # "unborn" => pc'[t] = pc[t]
             /\ collection_thread' \in Threads
             /\ pc[collection_thread'] = "unborn"
             /\ pc'[collection_thread'] = "loop"
             /\ UNCHANGED <<client, store>>

C9_StartOnce == [][C9_StartStep]_vars

\* start_collection was called while the collector was running
C9_Witness ==
    /\ lastCall = "start_noop"
    /\ running
    /\ nThreads = 1
    /\ Alive(1)

\* C10 as stated: once a stop_collection call has returned, no loop thread
\* is running.
C10_LoopNotRunningAfterStop ==
    (ctl = "idle" /\ lastCall \in {"stop_joined", "stop_timeout", "stop_noop"})
        => \A t \in Threads : ~Alive(t)

\* C11: while running is true the thread start_collection created is alive,
\* a loop thread ends only in a step taken while running is false, and a
\* thread that finds running true at the top of the loop stays in the loop
\* whatever the iteration raises.
C11_AliveWhileRunning ==
    running => (collection_thread \in Threads /\ Alive(collection_thread))

C11_LoopStep ==
    \A t \in Threads :
        /\ (pc[t] # "done" /\ pc'[t] = "done") => ~running
        /\ (pc[t] = "loop" /\ running) => pc'[t] \in {"loop", "iterate"}
        /\ pc[t] = "iterate" =>
               pc'[t] \in {"iterate", "sleep", "rollback", "collect"}
        /\ pc[t] = "rollback" =>
               pc'[t] \in {"rollback", "sleep", "handler_sleep"}
        /\ pc[t] = "handler_sleep" => pc'[t] \in {"handler_sleep", "loop"}

C11_OnlyStopEndsLoop == []C11_AliveWhileRunning /\ [][C11_LoopStep]_vars

\* an exception has reached the loop's handler in the second iteration of
\* the only loop thread, which is alive and sleeps before the next test
C11_Witness ==
    /\ nThreads = 1
    /\ running
    /\ nCycles = 2
    /\ pc[collection_thread] = "handler_sleep"

\* C12: while running is false no iteration begins: a thread that tests
\* the flag at the top of the loop ends, so that only an iteration a thread
\* was committed to when the flag was cleared can still start its cycle;
\* and unless start_collection sets the flag again every loop thread
\* eventually ends.
C12_StoppedStep ==
    ~running =>
        /\ nCycles' = nCycles
        /\ \A t \in Threads : pc[t] = "loop" => pc'[t] \in {"loop", "done"}

C12_Terminates == ~running ~> (running \/ \A t \in Threads : ~Alive(t))

C12_StopEndsLoop == [][C12_StoppedStep]_vars /\ C12_Terminates

\* the thread stop_collection gave up waiting for has finished its cycle
\* and ended
C12_Witness ==
    /\ lastCall = "stop_timeout"
    /\ ~running
    /\ pc[collection_thread] = "done"
    /\ \E c \in Cycles : cycleStatus[c] = "committed"

\* C13 as stated: get_status reports the collector as it currently is:
\* at some moment of the call running was as returned and the collector
\* was connected, or not, as returned.
C13_ReportsCurrentState ==
    status.call = "returned" =>
        \E c \in status.seen :
            (c = "True") <=> (status.answer[1].connected = "True")

\* connections this collector has opened and not closed
OpenConnections ==
    Cardinality({o \in ClientIds : clients[o] = "open"}) + orphaned

\* C14: the collector never has more than one open connection, has none
\* before a loop thread is inside read_register for the first time, and
\* the number of open connections grows only in a step of read_register.
C14_ConnectionState ==
    /\ OpenConnections <= 1
    /\ nCycles = 0 => OpenConnections = 0

C14_OpenStep ==
    OpenConnections' > OpenConnections =>
        \E t \in Threads : /\ pc[t] \in {"connect", "request"}
                            /\ pc'[t] # pc[t]

C14_OneConnection == []C14_ConnectionState /\ [][C14_OpenStep]_vars

\* C17: every good reading committed has the value of a register content
\* divided by 100.  When a cycle is about to commit and its snapshot holds
\* D20 with bounds 20 and 80, read as 90.0 (register content 9000), the
\* cycle has exactly one reading of the parameter, of quality good, and
\* exactly one alert of the parameter, an "exceeds maximum" alert of
\* severity high with threshold_value 80 and actual_value 90.0; and a
\* stored alert of threshold 80 for a value of 90.0 is the only alert of
\* its parameter in its cycle, next to the only reading of the parameter.
C17_EndToEnd ==
    /\ \A i \in DOMAIN store.sensor_data :
           LET s == store.sensor_data[i]
           IN  s.quality_code = 0 =>
                   \E raw \in DeviceRaws :
                       s.value.num * 100 = raw * s.value.den
    /\ \A t \in Threads :
           pc[t] = "commit" =>
               \A i \in DOMAIN parameters[t] :
                   LET q == parameters[t][i]
                       rs == session[t].sensor_data
                       as == session[t].alerts
                       readings == {k \in DOMAIN rs :
                                       rs[k].parameter_id = q.parameter_id}
                       alerts == {j \in DOMAIN as :
                                     as[j].parameter_id = q.parameter_id}
                   IN  (/\ q.register_address = <<"D", "2", "0">>
                        /\ q.min_value = Rat(20, 1)
                        /\ q.max_value = Rat(80, 1)
                        /\ rs[i].quality_code = 0
                        /\ RatEq(rs[i].value, Rat(90, 1))) =>
                           /\ readings = {i}
                           /\ Cardinality(alerts) = 1
                           /\ \A j \in alerts :
                                  /\ as[j].message = "exceeds maximum"
                                  /\ as[j].severity = "high"
                                  /\ RatEq(as[j].threshold_value, Rat(80, 1))
                                  /\ RatEq(as[j].actual_value, Rat(90, 1))
                                  /\ as[j].cycle = cycle[t]
    /\ \A j \in DOMAIN store.alerts :
           LET a == store.alerts[j]
               readings == {k \in DOMAIN store.sensor_data :
                               /\ store.sensor_data[k].parameter_id =
                                      a.parameter_id
                               /\ store.sensor_data[k].cycle = a.cycle}
               alerts == {k \in DOMAIN store.alerts :
                             /\ store.alerts[k].parameter_id = a.parameter_id
                             /\ store.alerts[k].cycle = a.cycle}
           IN  (/\ RatEq(a.threshold_value, Rat(80, 1))
                /\ RatEq(a.actual_value, Rat(90, 1))) =>
                   /\ Cardinality(readings) = 1
                   /\ alerts = {j}
                   /\ a.message = "exceeds maximum"
                   /\ a.severity = "high"

\* a committed cycle whose only active parameter was D20, read as 90.0
C17_Witness ==
    \E i \in DOMAIN store.sensor_data :
        /\ store.sensor_data[i].parameter_id = 2
        /\ store.sensor_data[i].quality_code = 0
        /\ RatEq(store.sensor_data[i].value, Rat(90, 1))
        /\ \A k \in DOMAIN store.sensor_data :
               store.sensor_data[k].cycle = store.sensor_data[i].cycle => k = i
        /\ \E j \in DOMAIN store.alerts :
               /\ store.alerts[j].cycle = store.sensor_data[i].cycle
               /\ RatEq(store.alerts[j].threshold_value, Rat(80, 1))
               /\ RatEq(store.alerts[j].actual_value, Rat(90, 1))

\* C18: a step of the collector (its callers, its loop threads) leaves
\* every stored reading and every stored alert as it was and only adds
\* rows after them; an alert enters the store unacknowledged, with
\* acknowledged_by and acknowledged_at unset; the store changes otherwise
\* only in a request of the dashboard or the configuration pages, and
\* where such a request removes no row, the acknowledge endpoint, a
\* stored alert changes only in its acknowledgement fields.
C18_StoreStep ==
    LET old == store
        new == store'
        collectorStep == pc' # pc \/ nCalls' # nCalls \/ ctl' # ctl
    IN  /\ collectorStep =>
               /\ Len(new.sensor_data) >= Len(old.sensor_data)
               /\ Len(new.alerts) >= Len(old.alerts)
               /\ \A i \in DOMAIN old.sensor_data :
                      new.sensor_data[i] = old.sensor_data[i]
               /\ \A j \in DOMAIN old.alerts : new.alerts[j] = old.alerts[j]
               /\ \A j \in DOMAIN new.alerts \ DOMAIN old.alerts :
                      /\ ~new.alerts[j].is_acknowledged
                      /\ new.alerts[j].acknowledged_by = 0
                      /\ new.alerts[j].acknowledged_at = "None"
        /\ new # old => (collectorStep <=> nWrites' = nWrites)
        /\ (/\ ~collectorStep
            /\ Len(new.sensor_data) = Len(old.sensor_data)
            /\ Len(new.alerts) = Len(old.alerts)) =>
               /\ new.sensor_data = old.sensor_data
               /\ \A j \in DOMAIN old.alerts :
                      new.alerts[j] =
                          [old.alerts[j] EXCEPT
                              !.is_acknowledged =
                                  new.alerts[j].is_acknowledged,
                              !.acknowledged_by =
                                  new.alerts[j].acknowledged_by,
                              !.acknowledged_at =
                                  new.alerts[j].acknowledged_at]

C18_AppendOnly == [][C18_StoreStep]_vars

\* a second cycle was committed after the alert of the first had been
\* acknowledged
C18_Witness ==
    \E i \in DOMAIN store.alerts, k \in DOMAIN store.sensor_data :
        /\ store.alerts[i].is_acknowledged
        /\ store.alerts[i].acknowledged_by = current_user
        /\ store.sensor_data[k].cycle > store.alerts[i].cycle

\* C19: every stored reading and every stored alert refers to a row of
\* the parameters table.
C19_ReferencesExist ==
    LET ids == {parameter_rows[k].parameter_id : k \in DOMAIN parameter_rows}
    IN  /\ \A i \in DOMAIN store.sensor_data :
               store.sensor_data[i].parameter_id \in ids
        /\ \A j \in DOMAIN store.alerts :
               store.alerts[j].parameter_id \in ids

\* C20: the readings stored for a parameter are in the order of their
\* cycles: a reading stored before another reading of the same parameter
\* comes from an earlier cycle.
C20_CycleOrder ==
    \A i \in DOMAIN store.sensor_data, j \in DOMAIN store.sensor_data :
        (/\ i < j
         /\ store.sensor_data[i].parameter_id =
                store.sensor_data[j].parameter_id)
        => store.sensor_data[i].cycle < store.sensor_data[j].cycle

\* ------------------------------------------- threshold evaluation alone
\* bounds and register contents check_parameter_alerts is evaluated on
EvalBounds == {NoneVal, Rat(0, 1), Rat(20, 1), Rat(80, 1)}
EvalRaws == {0, 1999, 2000, 2001, 5000, 7999, 8000, 8001, 65535}

InitEval ==
    /\ Idle
    /\ clientOf = [k \in Instances |-> 0]
    /\ clients = [o \in ClientIds |-> "free"]
    /\ parameter_rows = ParameterRows
    /\ tables = <<parameter_rows>>
    /\ reading = NoReading
    /\ teardown = NoTeardown
    /\ data_collector = 1
    /\ mock = NoMock
    /\ \E lo \in EvalBounds, hi \in EvalBounds, r \in EvalRaws :
         evaluation =
           [parameter |-> [parameter_id |-> 1,
                           register_address |-> <<"D", "2", "0">>,
                           min_value |-> lo, max_value |-> hi,
                           is_active |-> TRUE],
            raw |-> r, alerts |-> <<>>, done |-> FALSE]

\* read_register's scaling followed by check_parameter_alerts
Evaluate ==
    /\ ~evaluation.done
    /\ evaluation' = [evaluation EXCEPT
           !.alerts = check_parameter_alerts(evaluation.parameter,
                                             actual_value(evaluation.raw), 0),
           !.done = TRUE]
    /\ UNCHANGED <<runningOf, threadOf, clientOf, clients, instance, conn, pc,
                   parameters, idx, successful_reads, session, cycle,
                   last_read, store, committed, emitted, ctl, lastCall,
                   nCalls, nThreads, nCycles, cycleStatus, nWrites,
                   parameter_rows, tables, status, orphaned, reading, timing,
                   teardown, data_collector, mock>>

NextEval == Evaluate

SpecEval == InitEval /\ [][NextEval]_vars

\* ------------------------------------------------- read_register alone
\* characters and identifiers read_register is called on: the prefix the
\* code knows, another letter, two digits, and what int() accepts beside
\* them: white space (a space, a carriage return), the signs, the
\* underscore and the digits of other scripts (ARABIC-INDIC DIGIT TWO)
IdChars == {"D", "X", "2", "0", " ", "\r", "+", "-", "_", "U+0662"}
Identifiers == UNION {[1..n -> IdChars] : n \in 1..MaxIdLen}

InitRead ==
    /\ Idle
    /\ parameter_rows = ParameterRows
    /\ tables = <<parameter_rows>>
    /\ evaluation = NoEvaluation
    /\ teardown = NoTeardown
    /\ data_collector = 1
    /\ mock = NoMock
    /\ \E c \in ClientStates, connected \in BOOLEAN :
         \E a \in Identifiers, o \in ReadOutcomes :
           /\ c = "open" => connected
           /\ clientOf = [k \in Instances |->
                  IF k = 1 /\ c # "none" THEN 1 ELSE 0]
           /\ clients = [i \in ClientIds |->
                  IF i = 1 /\ c # "none" THEN c ELSE "free"]
           /\ reading = [client |-> c, connected |-> connected,
                         register_address |-> a, o |-> o,
                         result |-> NoResult, done |-> FALSE]

\* what a read_register call made with no other thread at work leaves of
\* self.client.  c: the client it finds; connected: a connected client was
\* there at line 60 or connect() made one; requested: a request went out;
\* o: the answer to it
ClientAfterRead(c, connected, requested, o) ==
    IF ~connected THEN "closed"
    ELSE IF requested /\ o.kind = "exception_closed" THEN "closed"
    ELSE "open"

\* self.client of the current DataCollector becomes a client in state c:
\* the one it refers to or, when it refers to none, a new one
SetClient(c) ==
    LET o == IF clientOf[data_collector] = 0 THEN 1
             ELSE clientOf[data_collector]
    IN  /\ clientOf' = [clientOf EXCEPT ![data_collector] = o]
        /\ clients' = [clients EXCEPT ![o] = c]

\* one read_register call
ReadRegister ==
    /\ ~reading.done
    /\ LET r == read_register(reading.connected, reading.register_address,
                              reading.o)
       IN  /\ reading' = [reading EXCEPT !.result = r, !.done = TRUE]
           /\ SetClient(ClientAfterRead(reading.client, reading.connected,
                                        r.requested, reading.o))
    /\ UNCHANGED <<runningOf, threadOf, instance, conn, pc, parameters, idx,
                   successful_reads, session, cycle, last_read, store,
                   committed, emitted, ctl, lastCall, nCalls, nThreads,
                   nCycles, cycleStatus, nWrites, parameter_rows, tables,
                   evaluation, status, orphaned, timing, teardown,
                   data_collector, mock>>

NextRead == ReadRegister

SpecRead == InitRead /\ [][NextRead]_vars

\* C15 as stated: what read_register returns after an error response
\* differs from what it returns, for the same register, after a transport
\* failure.
C15_FailureKindsDistinguished ==
    (reading.done /\ reading.result.kind = "error_response") =>
        \A o2 \in ReadOutcomes :
            o2.kind \in {"exception", "exception_closed"} =>
                read_register(reading.connected, reading.register_address,
                              o2).value # reading.result.value

\* C15 amended: read_register returns None for every failure, whichever
\* its kind (no connection, malformed identifier, error response,
\* transport failure), and a value, the register divided by 100, exactly
\* when a connection was there, the identifier decoded and the device
\* answered with registers.
C15_EveryFailureNone ==
    reading.done =>
        LET r == reading.result
            good == /\ reading.connected
                    /\ r.requested
                    /\ reading.o.kind = "registers"
        IN  /\ good <=> ~IsNone(r.value)
            /\ good <=> r.kind = "ok"
            /\ good => RatEq(r.value, Rat(reading.o.raw, 100))
            /\ r.kind \in {"ok", "connect_failed", "bad_identifier",
                            "error_response", "exception"}
            /\ r.kind = "error_response" <=>
                   (/\ reading.connected
                    /\ r.requested
                    /\ reading.o.kind = "error_response")

\* an error response to a request for register 20
C15_Witness ==
    /\ reading.done
    /\ reading.register_address = <<"D", "2", "0">>
    /\ reading.result.kind = "error_response"
    /\ reading.result.requested
    /\ IsNone(reading.result.value)

AllDigits(s) == s # <<>> /\ \A i \in 1..Len(s) : IsAsciiDigit(s[i])

\* C16 as stated: with a connection, a request goes out exactly for the
\* identifiers made of one letter followed by digits.
C16_PrefixRequired ==
    (reading.done /\ reading.connected) =>
        LET a == reading.register_address
        IN  reading.result.requested <=>
                (~IsAsciiDigit(a[1]) /\ AllDigits(Tail(a)))

\* identifiers made of ASCII letters and digits only
IsLetter(c) == c \in {"D", "X"}
LettersAndDigits(s) ==
    \A i \in 1..Len(s) : IsLetter(s[i]) \/ IsAsciiDigit(s[i])

\* C16 amended: with a connection and an identifier made of letters and
\* digits, a request goes out exactly when the identifier is a string of
\* digits or the letter D followed by a string of digits, and it asks for
\* the register the digits name: "20" and "D20" both read register 20;
\* any other such identifier, "X20" and "D" included, fails as a malformed
\* identifier without a request.
C16_DecodeRule ==
    (reading.done /\ reading.connected
         /\ LettersAndDigits(reading.register_address)) =>
        LET a == reading.register_address
            r == reading.result
            valid == \/ AllDigits(a)
                     \/ (a[1] = "D" /\ AllDigits(Tail(a)))
        IN  /\ r.requested <=> valid
            /\ ~valid <=> r.kind = "bad_identifier"
            /\ r.requested => r.register >= 0
            /\ a \in {<<"2", "0">>, <<"D", "2", "0">>} => r.register = 20
            /\ a \in {<<"D", "0", "2">>, <<"2">>} => r.register = 2
            /\ a \in {<<"X", "2", "0">>, <<"D">>, <<"D", "D", "2">>} =>
                   ~r.requested

\* the digits-only identifier "20" read register 20
C16_Witness ==
    /\ reading.done
    /\ reading.connected
    /\ reading.register_address = <<"2", "0">>
    /\ reading.result.kind = "ok"
    /\ reading.result.register = 20

\* ------------------------------------------------ the client and its users
\* a loop thread between line 60 and the return of read_register
InsideRead(t) ==
    pc[t] \in {"bind", "connect_call", "connect", "request_call", "request"}

\* C21: only the loop thread uses the client: at most one thread is inside
\* read_register, and the disconnect of stop_collection closes the client
\* only in a step where no thread is inside read_register.
C21_OneUser == Cardinality({t \in Threads : InsideRead(t)}) <= 1

C21_DisconnectStep ==
    (ctl = "disconnect" /\ ctl' = "idle" /\ client # "none") =>
        \A t \in Threads : ~InsideRead(t)

C21_ExclusiveClient == []C21_OneUser /\ [][C21_DisconnectStep]_vars

\* ------------------------------------------------ the loop and its clock
\* seconds a call of collect_all_data may take
ElapsedTimes == 0..(update_interval + 2)

\* sleep_time with an overdue cycle waiting for the next multiple of the
\* interval
sleep_time_next_slot(elapsed_time) ==
    update_interval - (elapsed_time % update_interval)

\* collection_loop line 205: max(0, self.update_interval - elapsed_time)
sleep_time(elapsed_time) ==
    IF update_interval - elapsed_time > 0
    THEN update_interval - elapsed_time ELSE 0

\* Sleep with its clock: collect_all_data took elapsed_time and returned,
\* and lines 204-210 sleep the rest of the interval or log the warning;
\* or it raised, and the handler sleeps the interval (line 217); then back
\* to the while test
TimedSleep(t) ==
    /\ pc[t] \in {"sleep", "handler_sleep"}
    /\ pc' = [pc EXCEPT ![t] = "loop"]
    /\ \E elapsed_time \in ElapsedTimes :
         LET raises == pc[t] = "handler_sleep"
         IN  timing' = [iterations |-> timing.iterations + 1,
                        cycles |-> timing.cycles,
                        elapsed_time |-> elapsed_time,
                        raised |-> raises,
                        slept |-> IF raises THEN update_interval
                                  ELSE sleep_time(elapsed_time),
                        warned |-> /\ ~raises
                                   /\ ~(sleep_time(elapsed_time) > 0)]
    /\ UNCHANGED <<runningOf, threadOf, clientOf, clients, instance, conn,
                   parameters, idx, successful_reads, session, cycle,
                   last_read, store, committed, emitted, ctl, lastCall,
                   nCalls, nThreads, nCycles, cycleStatus, nWrites,
                   parameter_rows, tables, evaluation, status, orphaned,
                   reading, teardown, data_collector, mock>>

\* the collector with every sleep of its loop threads timed, over
\* MaxLoopEvents calls and cycles
NextLoop ==
    \/ StartCollection /\ nEvents' <= MaxLoopEvents
    \/ StopCollection /\ nEvents' <= MaxLoopEvents
    \/ StopJoinReturn
    \/ StopDisconnect
    \/ \E t \in Threads : WhileTest(t) /\ nEvents' <= MaxLoopEvents
    \/ \E t \in Threads : LoopTop(t)
    \/ \E t \in Threads : TestClient(t)
    \/ \E t \in Threads : NewClient(t)
    \/ \E t \in Threads : ConnectCall(t)
    \/ \E t \in Threads : Connect(t)
    \/ \E t \in Threads : RequestCall(t)
    \/ \E t \in Threads : Request(t)
    \/ \E t \in Threads : Commit(t)
    \/ \E t \in Threads : Rollback(t)
    \/ \E t \in Threads : TimedSleep(t)

SpecLoop == Init /\ [][NextLoop]_vars

\* the loop threads that have called collect_all_data in the iteration
\* they are in
InIteration ==
    {t \in Threads : InCycle(t) \/ pc[t] \in {"rollback", "sleep",
                                               "handler_sleep"}}

\* C22 as stated: the sleep of every iteration is max(0, interval -
\* elapsed), and as many cycles have been started as iterations executed
\* or begun.
C22_SleepIsRemainder ==
    timing.iterations > 0 =>
        /\ timing.elapsed_time >= update_interval => timing.slept = 0
        /\ timing.elapsed_time < update_interval =>
               timing.slept = update_interval - timing.elapsed_time
        /\ timing.cycles = timing.iterations + Cardinality(InIteration)

\* C22: in an iteration whose call of collect_all_data returns, the sleep
\* is the rest of the interval, and none at all (with the warning logged)
\* when the call took the interval or longer; in an iteration whose
\* exception reaches the handler of the loop the sleep is the interval; and
\* every iteration the while test let in has started exactly one cycle.
C22_SleepRule ==
    timing.iterations > 0 =>
        /\ (~timing.raised /\ timing.elapsed_time >= update_interval) =>
               (timing.slept = 0 /\ timing.warned)
        /\ (~timing.raised /\ timing.elapsed_time < update_interval) =>
               /\ timing.slept = update_interval - timing.elapsed_time
               /\ ~timing.warned
        /\ timing.raised => timing.slept = update_interval
        /\ timing.cycles = timing.iterations + Cardinality(InIteration)
        /\ nCycles = timing.cycles
                      + Cardinality({t \in Threads : pc[t] = "iterate"})

\* the second iteration of the only loop thread overran the interval and
\* was followed by no sleep
C22_Witness ==
    /\ nThreads = 1
    /\ running
    /\ timing.iterations = 2
    /\ ~timing.raised
    /\ timing.elapsed_time > update_interval
    /\ timing.slept = 0
    /\ timing.warned

\* ------------------------------------------- alerts of one evaluation
\* C23: one evaluation creates at most two alerts, and two of them (one
\* of each bound) only for a parameter with both bounds set and the
\* minimum strictly above the maximum; with a bound unset or the minimum
\* not above the maximum it creates at most one.
C23_BothOnlyIfCrossed ==
    evaluation.done =>
        LET p == evaluation.parameter
            crossed == /\ ~IsNone(p.min_value)
                       /\ ~IsNone(p.max_value)
                       /\ RatLess(p.max_value, p.min_value)
        IN  /\ Len(evaluation.alerts) <= 2
            /\ Len(evaluation.alerts) = 2 =>
                   /\ crossed
                   /\ evaluation.alerts[1].message = "below minimum"
                   /\ evaluation.alerts[2].message = "exceeds maximum"
            /\ ~crossed => Len(evaluation.alerts) <= 1

\* 50.0 evaluated against minimum 80 and maximum 20: both alerts
C23_Witness ==
    /\ evaluation.done
    /\ evaluation.parameter.min_value = Rat(80, 1)
    /\ evaluation.parameter.max_value = Rat(20, 1)
    /\ evaluation.raw = 5000
    /\ Len(evaluation.alerts) = 2

\* ------------------------------------------------- one attempt per call
\* the step of thread t in which read_register returns None: the bad
\* reading of the parameter is added and the for loop moves on
ReadFailed(t) ==
    /\ idx'[t] = idx[t] + 1
    /\ pc'[t] \in {"collect", "commit"}
    /\ last_read'[t] \in ReadFailures
    /\ session'[t].alerts = session[t].alerts
    /\ session'[t].sensor_data = session[t].sensor_data \o
           <<SensorData(parameters[t][idx[t]].parameter_id, Rat(0, 1), 2,
                        cycle[t])>>

\* C24: a call of read_register goes from line 60 to at most one connect
\* and from there to at most one request, never back: a connect that fails
\* and a request that fails end the call at once with the bad reading of
\* the parameter, whose next read is that of a later cycle.
C24_CallStep ==
    \A t \in Threads :
        /\ pc[t] = "collect" =>
               \/ pc'[t] = "collect"
               \/ /\ pc'[t] = (IF client = "open" THEN "request_call"
                                ELSE "bind")
                  /\ idx'[t] = idx[t]
                  /\ session'[t] = session[t]
        /\ pc[t] = "bind" =>
               pc'[t] \in {"bind", "connect_call"} /\ idx'[t] = idx[t]
        /\ pc[t] = "connect_call" =>
               pc'[t] \in {"connect_call", "connect"} /\ idx'[t] = idx[t]
        /\ pc[t] = "connect" =>
               \/ pc'[t] = "connect" /\ idx'[t] = idx[t]
               \/ pc'[t] = "request_call" /\ idx'[t] = idx[t]
               \/ ReadFailed(t) /\ last_read'[t] = "connect_failed"
        /\ pc[t] = "request_call" =>
               \/ pc'[t] = "request_call" /\ idx'[t] = idx[t]
               \/ pc'[t] = "request" /\ idx'[t] = idx[t]
               \/ ReadFailed(t) /\ last_read'[t] = "bad_identifier"
        /\ pc[t] = "request" =>
               \/ pc'[t] = "request" /\ idx'[t] = idx[t]
               \/ /\ ReadFailed(t)
                  /\ last_read'[t] \in {"error_response", "exception"}
               \/ /\ idx'[t] = idx[t] + 1
                  /\ pc'[t] \in {"collect", "commit"}
                  /\ last_read'[t] = "ok"
        /\ (InCycle(t) /\ pc'[t] = pc[t]) => idx'[t] = idx[t]

C24_NoRetry == [][C24_CallStep]_vars

\* the request for D20 failed and the cycle went on to its commit with the
\* bad reading
C24_Witness ==
    \E t \in Threads :
        /\ pc[t] = "commit"
        /\ Len(parameters[t]) = 2
        /\ last_read[t] \in {"error_response", "exception"}
        /\ Len(session[t].sensor_data) = 2
        /\ session[t].sensor_data[2].quality_code = 2

\* ------------------------------------------------------------ reconnect
\* C25 as stated: after a read that fails because the device is
\* unreachable or the connection closed, the next call of read_register
\* tries to connect: the read that fails leaves no connected client, and
\* the call that finds no connected client goes to connect().
C25_FailureStep ==
    \A t \in Threads :
        /\ (/\ idx'[t] = idx[t] + 1
            /\ last_read'[t] \in {"connect_failed", "exception"}) =>
               client' # "open"
        /\ (pc[t] = "collect" /\ pc'[t] # "collect" /\ client # "open") =>
               pc'[t] = "bind"

C25_ReconnectsAfterFailure == [][C25_FailureStep]_vars

\* -------------------------------------------------------- disconnect alone
MaxDisconnects == 5  \* disconnect calls made in a row

InitDisconnect ==
    /\ Idle
    /\ clientOf = [k \in Instances |-> 0]
    /\ clients = [o \in ClientIds |-> "free"]
    /\ parameter_rows = ParameterRows
    /\ tables = <<parameter_rows>>
    /\ evaluation = NoEvaluation
    /\ reading = NoReading
    /\ data_collector = 1
    /\ mock = NoMock
    /\ \E c \in ClientStates :
         teardown = [first |-> c, client |-> c, calls |-> <<>>,
                     errors |-> <<>>]

\* one disconnect call; calls records whether its close() raised
Disconnect ==
    /\ Len(teardown.calls) < MaxDisconnects
    /\ \E closeRaises \in BOOLEAN :
         teardown' = [first |-> teardown.first,
                      client |-> disconnect(teardown.client, closeRaises),
                      calls |-> Append(teardown.calls, closeRaises),
                      errors |-> Append(teardown.errors,
                          disconnect_error(teardown.client, closeRaises))]
    /\ UNCHANGED <<runningOf, threadOf, clientOf, clients, instance, conn, pc,
                   parameters, idx, successful_reads, session, cycle,
                   last_read, store, committed, emitted, ctl, lastCall,
                   nCalls, nThreads, nCycles, cycleStatus, nWrites,
                   parameter_rows, tables, evaluation, status, orphaned,
                   reading, timing, data_collector, mock>>

NextDisconnect == Disconnect

SpecDisconnect == InitDisconnect /\ [][NextDisconnect]_vars

\* the client after one disconnect whose close() does not raise
AfterDisconnect(c) == IF c = "none" THEN "none" ELSE "closed"

\* C26 as stated: after any number of disconnect calls, whether or not a
\* close() raised, the client is as after one successful disconnect, and
\* no call has raised.
C26_AlwaysAsOneDisconnect ==
    teardown.calls # <<>> =>
        /\ teardown.client = AfterDisconnect(teardown.first)
        /\ \A k \in DOMAIN teardown.errors : teardown.errors[k] # "raised"

\* C26: no disconnect call raises; with no client or a closed client, and
\* from the first call on whose close() does not raise, the client is as
\* after one successful disconnect whatever calls follow; while every
\* close() has raised the client is left as it was.
C26_Idempotent ==
    teardown.calls # <<>> =>
        /\ \A k \in DOMAIN teardown.errors : teardown.errors[k] # "raised"
        /\ (\/ teardown.first # "open"
            \/ \E k \in DOMAIN teardown.calls : ~teardown.calls[k]) =>
               teardown.client = AfterDisconnect(teardown.first)
        /\ (\A k \in DOMAIN teardown.calls : teardown.calls[k]) =>
               teardown.client = teardown.first

\* three calls on an open client: the first close() raised, the second
\* did not, the third call found the client closed
C26_Witness ==
    /\ teardown.first = "open"
    /\ teardown.calls = <<TRUE, FALSE, FALSE>>
    /\ teardown.errors = <<"logged", "none", "none">>
    /\ teardown.client = "closed"

\* ------------------------------------------------------ after the stop
\* a stop_collection call has returned and no start_collection call has
\* been made since
Stopped ==
    /\ ctl = "idle"
    /\ lastCall \in {"stop_joined", "stop_timeout", "stop_noop"}

\* C27: from the return of stop_collection to the next start_collection
\* get_status does not report the collector connected, and no step opens a
\* connection.
C27_DisconnectedWhileStopped == Stopped => is_connected # "True"

C27_NoOpenStep ==
    (Stopped /\ Stopped') => OpenConnections' <= OpenConnections

C27_StaysDisconnected ==
    []C27_DisconnectedWhileStopped /\ [][C27_NoOpenStep]_vars

\* ------------------------------------------------ alerts and their readings
\* C28: every stored alert has a stored good reading of its parameter and
\* its cycle whose value is the actual_value of the alert and lies strictly
\* beyond the threshold_value of the alert, on the side its message names;
\* and the cycle of every stored alert and reading is a committed one.
C28_AlertHasReading ==
    /\ \A i \in DOMAIN store.alerts :
           LET a == store.alerts[i]
           IN  /\ \E j \in DOMAIN store.sensor_data :
                      LET r == store.sensor_data[j]
                      IN  /\ r.parameter_id = a.parameter_id
                          /\ r.cycle = a.cycle
                          /\ r.quality_code = 0
                          /\ RatEq(r.value, a.actual_value)
               /\ ~IsNone(a.threshold_value)
               /\ a.message = "below minimum" =>
                      RatLess(a.actual_value, a.threshold_value)
               /\ a.message = "exceeds maximum" =>
                      RatLess(a.threshold_value, a.actual_value)
               /\ a.message \in {"below minimum", "exceeds maximum"}
               /\ cycleStatus[a.cycle] = "committed"
    /\ \A j \in DOMAIN store.sensor_data :
           cycleStatus[store.sensor_data[j].cycle] = "committed"

\* the store holds an alert of parameter 2 above its maximum with the good
\* reading of 90.0 of the same cycle, after another cycle was rolled back
C28_Witness ==
    \E i \in DOMAIN store.alerts, j \in DOMAIN store.sensor_data :
        /\ store.alerts[i].parameter_id = 2
        /\ store.alerts[i].cycle = store.sensor_data[j].cycle
        /\ store.sensor_data[j].parameter_id = 2
        /\ store.sensor_data[j].quality_code = 0
        /\ RatEq(store.sensor_data[j].value, Rat(90, 1))
        /\ \E c \in Cycles : cycleStatus[c] = "rolled_back"

\* ------------------------------------------------- the module-level API
\* the module as imported: _data_collector is None, nothing constructed
InitModule ==
    /\ Idle
    /\ clientOf = [k \in Instances |-> 0]
    /\ clients = [o \in ClientIds |-> "free"]
    /\ parameter_rows = ParameterRows
    /\ tables = <<parameter_rows>>
    /\ evaluation = NoEvaluation
    /\ reading = NoReading
    /\ teardown = NoTeardown
    /\ data_collector = 0
    /\ mock = NoMock

\* initialize_data_collector: the global is bound to a new DataCollector
\* (running False, no thread, no client).  Nothing is done to the instance
\* it replaces: its loop threads go on under its own running flag, which
\* the module's functions no longer reach, and with its own client.  The
\* calls of the module's functions are made one after the other.
InitializeDataCollector ==
    /\ ctl = "idle"
    /\ data_collector < MaxInstances
    /\ data_collector' = data_collector + 1
    /\ lastCall' = "initialize"
    /\ UNCHANGED <<runningOf, threadOf, clientOf, clients, instance, conn, pc,
                   parameters, idx, successful_reads, session, cycle,
                   last_read, store, committed, emitted, ctl, nCalls,
                   nThreads, nCycles, cycleStatus, nWrites, parameter_rows,
                   tables, evaluation, orphaned, reading, timing, teardown,
                   mock>>
    /\ Observe

\* start_data_collection: start_collection of the current instance, or an
\* error in the log when there is none
StartDataCollection ==
    \/ /\ data_collector # 0
       /\ StartCollection
    \/ /\ data_collector = 0
       /\ ctl = "idle"
       /\ nCalls + nWrites < MaxCalls
       /\ nEvents < MaxEvents
       /\ nCalls' = nCalls + 1
       /\ lastCall' = "start_uninitialized"
       /\ UNCHANGED <<runningOf, threadOf, clientOf, clients, instance, conn,
                      pc, parameters, idx, successful_reads, session, cycle,
                      last_read, store, committed, emitted, ctl, nThreads,
                      nCycles, cycleStatus, nWrites, parameter_rows, tables,
                      evaluation, status, orphaned, reading, timing, teardown,
                      data_collector, mock>>

\* stop_data_collection: stop_collection of the current instance, or a
\* warning in the log when there is none
StopDataCollection ==
    \/ /\ data_collector # 0
       /\ StopCollection
    \/ /\ data_collector = 0
       /\ ctl = "idle"
       /\ nCalls + nWrites < MaxCalls
       /\ nEvents < MaxEvents
       /\ nCalls' = nCalls + 1
       /\ lastCall' = "stop_uninitialized"
       /\ UNCHANGED <<runningOf, threadOf, clientOf, clients, instance, conn,
                      pc, parameters, idx, successful_reads, session, cycle,
                      last_read, store, committed, emitted, ctl, nThreads,
                      nCycles, cycleStatus, nWrites, parameter_rows, tables,
                      evaluation, status, orphaned, reading, timing, teardown,
                      data_collector, mock>>

\* the module's three functions over the loop threads they start
NextModule ==
    \/ InitializeDataCollector
    \/ StartDataCollection
    \/ StopDataCollection
    \/ StopJoinReturn
    \/ StopDisconnect
    \/ \E t \in Threads : ThreadStep(t)

SpecModule == InitModule /\ [][NextModule]_vars

\* acquisition loops running in the process, whichever instance owns them
RunningLoops == {t \in Threads : Alive(t)}

\* stop_data_collection has returned and no other call was made since
StopDataCollectionReturned ==
    /\ ctl = "idle"
    /\ lastCall \in {"stop_joined", "stop_timeout", "stop_noop",
                     "stop_uninitialized"}

\* C29: whatever sequence of initialize_data_collector,
\* start_data_collection and stop_data_collection calls was made, at most
\* one acquisition loop is running, and once stop_data_collection has
\* returned none is, also when the collector was initialized again while
\* an earlier instance was running
C29_AtMostOneLoop ==
    /\ Cardinality(RunningLoops) <= 1
    /\ StopDataCollectionReturned => RunningLoops = {}

\* ------------------------------------------------------- the mock PLC
\* init_db: the parameters of the two sample machines; min_value and
\* max_value as configured, every row active
DefaultParameters == <<
    [parameter_id |-> 1, register_address |-> <<"D", "2", "0">>,
     min_value |-> Rat(20, 1), max_value |-> Rat(80, 1), is_active |-> TRUE],
    [parameter_id |-> 2, register_address |-> <<"D", "2", "1">>,
     min_value |-> Rat(0, 1), max_value |-> Rat(100, 1), is_active |-> TRUE],
    [parameter_id |-> 3, register_address |-> <<"D", "2", "2">>,
     min_value |-> Rat(0, 1), max_value |-> Rat(10, 1), is_active |-> TRUE],
    [parameter_id |-> 4, register_address |-> <<"D", "2", "3">>,
     min_value |-> Rat(0, 1), max_value |-> Rat(100, 1), is_active |-> TRUE],
    [parameter_id |-> 5, register_address |-> <<"D", "2", "4">>,
     min_value |-> Rat(30, 1), max_value |-> Rat(90, 1), is_active |-> TRUE],
    [parameter_id |-> 6, register_address |-> <<"D", "2", "5">>,
     min_value |-> Rat(18, 1), max_value |-> Rat(75, 1), is_active |-> TRUE],
    [parameter_id |-> 7, register_address |-> <<"D", "2", "6">>,
     min_value |-> Rat(0, 1), max_value |-> Rat(150, 1), is_active |-> TRUE],
    [parameter_id |-> 8, register_address |-> <<"D", "2", "7">>,
     min_value |-> Rat(0, 1), max_value |-> Rat(3000, 1),
     is_active |-> TRUE] >>

\* the registers update_sensor_data writes
SimulatedRegisters == 20..24

\* get_value line 67: base + sine_component + noise_component, in
\* thousandths; per register the lowest and the highest sum the base, the
\* amplitude and the noise allow and sums in between, none of them midway
\* between two hundredths
SimulatedValues(register) ==
    CASE register = 20 -> {13000, 19996, 34303, 37000}
      [] register = 21 -> {30000, 39483}
      [] register = 22 -> {0, 287, 2053, 4000}
      [] register = 23 -> {76993, 98000}
      [] register = 24 -> {48000, 68073}

\* max(lo, min(hi, value))
clamp(lo, hi, value) ==
    LET m == IF hi < value THEN hi ELSE value
    IN  IF lo > m THEN lo ELSE m

\* round(value, 2) of a value in thousandths that is not midway between
\* two hundredths: the nearest hundredth
round2(value) == (value + 5) \div 10

\* get_value lines 69-81: the sum clamped to the register's range and
\* rounded to two decimals; thousandths in, hundredths out
get_value(register, value) ==
    round2(CASE register = 20 -> clamp(20000, 80000, value)
             [] register = 21 -> clamp(0, 100000, value)
             [] register = 22 -> clamp(0, 10000, value)
             [] register = 23 -> clamp(0, 100000, value)
             [] register = 24 -> clamp(30000, 90000, value))

\* the values h / 100, h from 0 to 10000 (get_value returns no other),
\* whose double times 100 is the double just below h: 0.29, 0.57, 0.58
\* and so on
ProductBelow ==
    {29, 57, 58, 113, 114, 115, 116, 201, 203, 205, 207, 226, 228, 230, 232,
     251, 253, 255, 402, 406, 410, 414, 427, 431, 435, 439, 452, 456, 460,
     464, 477, 481, 485, 489, 502, 506, 510, 803, 804, 812, 820, 828, 829,
     837, 845, 853, 854, 862, 870, 878, 879, 887, 895, 903, 904, 912, 920,
     928, 929, 937, 945, 953, 954, 962, 970, 978, 979, 987, 995, 1003, 1004,
     1012, 1020, 1606, 1608, 1615, 1624, 1631, 1633, 1640, 1649, 1656, 1658,
     1665, 1674, 1681, 1683, 1690, 1699, 1706, 1708, 1715, 1724, 1731, 1733,
     1740, 1749, 1756, 1758, 1765, 1774, 1781, 1783, 1790, 1799, 1806, 1808,
     1815, 1824, 1831, 1833, 1840, 1849, 1856, 1858, 1865, 1874, 1881, 1883,
     1890, 1899, 1906, 1908, 1915, 1924, 1931, 1933, 1940, 1949, 1956, 1958,
     1965, 1974, 1981, 1983, 1990, 1999, 2006, 2008, 2015, 2024, 2031, 2033,
     2040, 3205, 3212, 3216, 3223, 3230, 3237, 3241, 3248, 3255, 3262, 3266,
     3273, 3280, 3287, 3291, 3298, 3305, 3312, 3316, 3323, 3330, 3337, 3341,
     3348, 3355, 3362, 3366, 3373, 3380, 3387, 3391, 3398, 3405, 3412, 3416,
     3423, 3430, 3437, 3441, 3448, 3455, 3462, 3466, 3473, 3480, 3487, 3491,
     3498, 3505, 3512, 3516, 3523, 3530, 3537, 3541, 3548, 3555, 3562, 3566,
     3573, 3580, 3587, 3591, 3598, 3605, 3612, 3616, 3623, 3630, 3637, 3641,
     3648, 3655, 3662, 3666, 3673, 3680, 3687, 3691, 3698, 3705, 3712, 3716,
     3723, 3730, 3737, 3741, 3748, 3755, 3762, 3766, 3773, 3780, 3787, 3791,
     3798, 3805, 3812, 3816, 3823, 3830, 3837, 3841, 3848, 3855, 3862, 3866,
     3873, 3880, 3887, 3891, 3898, 3905, 3912, 3916, 3923, 3930, 3937, 3941,
     3948, 3955, 3962, 3966, 3973, 3980, 3987, 3991, 3998, 4005, 4012, 4016,
     4023, 4030, 4037, 4041, 4048, 4055, 4062, 4066, 4073, 4080, 4087, 4091,
     6407, 6410, 6421, 6424, 6432, 6435, 6446, 6449, 6457, 6460, 6471, 6474,
     6482, 6485, 6496, 6499, 6507, 6510, 6521, 6524, 6532, 6535, 6546, 6549,
     6557, 6560, 6571, 6574, 6582, 6585, 6596, 6599, 6607, 6610, 6621, 6624,
     6632, 6635, 6646, 6649, 6657, 6660, 6671, 6674, 6682, 6685, 6696, 6699,
     6707, 6710, 6721, 6724, 6732, 6735, 6746, 6749, 6757, 6760, 6771, 6774,
     6782, 6785, 6796, 6799, 6807, 6810, 6821, 6824, 6832, 6835, 6846, 6849,
     6857, 6860, 6871, 6874, 6882, 6885, 6896, 6899, 6907, 6910, 6921, 6924,
     6932, 6935, 6946, 6949, 6957, 6960, 6971, 6974, 6982, 6985, 6996, 6999,
     7007, 7010, 7021, 7024, 7032, 7035, 7046, 7049, 7057, 7060, 7071, 7074,
     7082, 7085, 7096, 7099, 7107, 7110, 7121, 7124, 7132, 7135, 7146, 7149,
     7157, 7160, 7171, 7174, 7182, 7185, 7196, 7199, 7207, 7210, 7221, 7224,
     7232, 7235, 7246, 7249, 7257, 7260, 7271, 7274, 7282, 7285, 7296, 7299,
     7307, 7310, 7321, 7324, 7332, 7335, 7346, 7349, 7357, 7360, 7371, 7374,
     7382, 7385, 7396, 7399, 7407, 7410, 7421, 7424, 7432, 7435, 7446, 7449,
     7457, 7460, 7471, 7474, 7482, 7485, 7496, 7499, 7507, 7510, 7521, 7524,
     7532, 7535, 7546, 7549, 7557, 7560, 7571, 7574, 7582, 7585, 7596, 7599,
     7607, 7610, 7621, 7624, 7632, 7635, 7646, 7649, 7657, 7660, 7671, 7674,
     7682, 7685, 7696, 7699, 7707, 7710, 7721, 7724, 7732, 7735, 7746, 7749,
     7757, 7760, 7771, 7774, 7782, 7785, 7796, 7799, 7807, 7810, 7821, 7824,
     7832, 7835, 7846, 7849, 7857, 7860, 7871, 7874, 7882, 7885, 7896, 7899,
     7907, 7910, 7921, 7924, 7932, 7935, 7946, 7949, 7957, 7960, 7971, 7974,
     7982, 7985, 7996, 7999, 8007, 8010, 8021, 8024, 8032, 8035, 8046, 8049,
     8057, 8060, 8071, 8074, 8082, 8085, 8096, 8099, 8107, 8110, 8121, 8124,
     8132, 8135, 8146, 8149, 8157, 8160, 8171, 8174, 8182, 8185}

\* update_sensor_data line 122: int(value * 100) of a value given in
\* hundredths; the float product of some values lies just below the
\* integer and int() truncates it
scaled_value(value) == IF value \in ProductBelow THEN value - 1 ELSE value

\* the sensor thread has stored a simulated value in the register
Updated(register) == register \in mock.written

\* MockPLCServer.__init__, and a collector that has not been started
InitMock ==
    /\ Idle
    /\ clientOf = [k \in Instances |-> 0]
    /\ clients = [o \in ClientIds |-> "free"]
    /\ parameter_rows = DefaultParameters
    /\ tables = <<parameter_rows>>
    /\ evaluation = NoEvaluation
    /\ reading = NoReading
    /\ teardown = NoTeardown
    /\ data_collector = 1
    /\ mock = NoMock

\* MockPLCServer.start lines 142-146: running is set and the sensor thread
\* started
MockStart ==
    /\ mock.thread = "unborn"
    /\ mock' = [mock EXCEPT !.running = TRUE, !.thread = "top"]
    /\ UNCHANGED <<runningOf, threadOf, clientOf, clients, instance, conn, pc,
                   parameters, idx, successful_reads, session, cycle,
                   last_read, store, committed, emitted, ctl, lastCall,
                   nCalls, nThreads, nCycles, cycleStatus, nWrites,
                   parameter_rows, tables, evaluation, status, orphaned,
                   reading, timing, teardown, data_collector>>

\* MockPLCServer.start lines 157-170: StartTcpServer; either the registers
\* are served from here on, whatever the sensor thread has done so far,
\* or it raises and running is cleared
MockServe ==
    /\ mock.thread # "unborn"
    /\ mock.running
    /\ ~mock.serving
    /\ \E raises \in BOOLEAN :
         mock' = IF raises THEN [mock EXCEPT !.running = FALSE]
                 ELSE [mock EXCEPT !.serving = TRUE]
    /\ UNCHANGED <<runningOf, threadOf, clientOf, clients, instance, conn, pc,
                   parameters, idx, successful_reads, session, cycle,
                   last_read, store, committed, emitted, ctl, lastCall,
                   nCalls, nThreads, nCycles, cycleStatus, nWrites,
                   parameter_rows, tables, evaluation, status, orphaned,
                   reading, timing, teardown, data_collector>>

\* MockPLCServer.start lines 165-167: a KeyboardInterrupt ends the
\* serving and running is cleared
MockInterrupt ==
    /\ mock.serving
    /\ mock' = [mock EXCEPT !.serving = FALSE, !.running = FALSE]
    /\ UNCHANGED <<runningOf, threadOf, clientOf, clients, instance, conn, pc,
                   parameters, idx, successful_reads, session, cycle,
                   last_read, store, committed, emitted, ctl, lastCall,
                   nCalls, nThreads, nCycles, cycleStatus, nWrites,
                   parameter_rows, tables, evaluation, status, orphaned,
                   reading, timing, teardown, data_collector>>

\* update_sensor_data line 116: the while test of the sensor thread, made
\* once before every pass over the registers
MockWhileTest ==
    /\ mock.thread = "top"
    /\ mock' = [mock EXCEPT
           !.thread = IF mock.running THEN "pass" ELSE "ended"]
    /\ UNCHANGED <<runningOf, threadOf, clientOf, clients, instance, conn, pc,
                   parameters, idx, successful_reads, session, cycle,
                   last_read, store, committed, emitted, ctl, lastCall,
                   nCalls, nThreads, nCycles, cycleStatus, nWrites,
                   parameter_rows, tables, evaluation, status, orphaned,
                   reading, timing, teardown, data_collector>>

\* update_sensor_data lines 119-123 and 134: one register of the for loop
\* gets its next value, whatever running is by now; after register 24 the
\* thread sleeps 1 s and goes back to the while test
UpdateSensorData ==
    /\ mock.thread = "pass"
    /\ \E v \in SimulatedValues(mock.register) :
         mock' = [mock EXCEPT
                    !.hr[mock.register] =
                        scaled_value(get_value(mock.register, v)),
                    !.written = @ \cup {mock.register},
                    !.register = IF mock.register = 24 THEN 20
                                 ELSE mock.register + 1,
                    !.thread = IF mock.register = 24 THEN "top"
                               ELSE "pass"]
    /\ UNCHANGED <<runningOf, threadOf, clientOf, clients, instance, conn, pc,
                   parameters, idx, successful_reads, session, cycle,
                   last_read, store, committed, emitted, ctl, lastCall,
                   nCalls, nThreads, nCycles, cycleStatus, nWrites,
                   parameter_rows, tables, evaluation, status, orphaned,
                   reading, timing, teardown, data_collector>>

\* what the mock answers to a request for a register: its content or an
\* error response while it is serving, and at any time nothing the client
\* can use
MockOutcomes(register) ==
    {[kind |-> "exception", raw |-> 0],
     [kind |-> "exception_closed", raw |-> 0]}
    \cup (IF mock.serving
          THEN {[kind |-> "registers", raw |-> mock.hr[register]],
                [kind |-> "error_response", raw |-> 0]}
          ELSE {})

\* the poll made of the parameter with the result r of read_register on
\* the answer o: check_parameter_alerts compares a value read with the
\* parameter's bounds
Polled(parameter, r, o) ==
    [register |-> register_num(parameter.register_address).value,
     kind |-> r.kind,
     raw_value |-> IF r.kind = "ok" THEN o.raw ELSE 0,
     value |-> r.value,
     alerts |-> collect_parameter_data(parameter, r.value, 0).alerts]

\* collect_parameter_data of one configured parameter against the mock,
\* by a collector whose loop is not running, begins: read_register tests
\* its client (line 60) and goes on to read_holding_registers with a
\* connected one, or binds a new client (line 35) and calls connect().
\* The mock's server and its sensor thread run while the poll waits in
\* either call; mock.poll is what the poll last begun has returned.
PollMock ==
    /\ mock.polling.pc = "idle"
    /\ \E i \in 1..Len(parameter_rows) :
         mock' = [mock EXCEPT
                    !.polling = [pc |-> IF client = "open" THEN "request"
                                        ELSE "connect",
                                 parameter |-> i],
                    !.poll = NoPoll]
    /\ SetClient(IF client = "open" THEN "open" ELSE "closed")
    /\ UNCHANGED <<runningOf, threadOf, instance, conn, pc, parameters, idx,
                   successful_reads, session, cycle, last_read, store,
                   committed, emitted, ctl, lastCall, nCalls, nThreads,
                   nCycles, cycleStatus, nWrites, parameter_rows, tables,
                   evaluation, status, orphaned, reading, timing, teardown,
                   data_collector>>

\* connect() returns (lines 36-47): a connection, which only a serving
\* mock accepts, and the poll goes on to read_holding_registers; or none,
\* and read_register returns None (line 62)
PollConnect ==
    /\ mock.polling.pc = "connect"
    /\ \E connected \in BOOLEAN :
         LET parameter == parameter_rows[mock.polling.parameter]
             o == [kind |-> "none", raw |-> 0]
             r == read_register(FALSE, parameter.register_address, o)
         IN  /\ connected => mock.serving
             /\ mock' = IF connected
                        THEN [mock EXCEPT !.polling.pc = "request"]
                        ELSE [mock EXCEPT !.polling = NoPolling,
                                          !.poll = Polled(parameter, r, o)]
             /\ SetClient(IF connected THEN "open" ELSE "closed")
    /\ UNCHANGED <<runningOf, threadOf, instance, conn, pc, parameters, idx,
                   successful_reads, session, cycle, last_read, store,
                   committed, emitted, ctl, lastCall, nCalls, nThreads,
                   nCycles, cycleStatus, nWrites, parameter_rows, tables,
                   evaluation, status, orphaned, reading, timing, teardown,
                   data_collector>>

\* read_holding_registers returns (lines 72-86) what the mock answers by
\* now, read_register the register's content over 100 or None, and
\* collect_parameter_data evaluates it
PollRequest ==
    /\ mock.polling.pc = "request"
    /\ LET parameter == parameter_rows[mock.polling.parameter]
           register == register_num(parameter.register_address).value
       IN  \E o \in MockOutcomes(register) :
             LET r == read_register(TRUE, parameter.register_address, o)
             IN  /\ mock' = [mock EXCEPT !.polling = NoPolling,
                                         !.poll = Polled(parameter, r, o)]
                 /\ SetClient(ClientAfterRead(client, TRUE, r.requested,
                                              o))
    /\ UNCHANGED <<runningOf, threadOf, instance, conn, pc, parameters, idx,
                   successful_reads, session, cycle, last_read, store,
                   committed, emitted, ctl, lastCall, nCalls, nThreads,
                   nCycles, cycleStatus, nWrites, parameter_rows, tables,
                   evaluation, status, orphaned, reading, timing, teardown,
                   data_collector>>

\* the mock PLC polled with the parameters of init_db
NextMock ==
    \/ MockStart
    \/ MockServe
    \/ MockInterrupt
    \/ MockWhileTest
    \/ UpdateSensorData
    \/ PollMock
    \/ PollConnect
    \/ PollRequest

SpecMock == InitMock /\ [][NextMock]_vars

\* the parameter of init_db that is read from the register
ParameterOf(register) ==
    CHOOSE p \in {DefaultParameters[i] : i \in 1..Len(DefaultParameters)} :
        register_num(p.register_address) = Value(register)

\* within the bounds init_db gives its parameter
UpdatedWithinBounds ==
    \A r \in SimulatedRegisters :
        Updated(r) =>
            /\ mock.hr[r] \in 0..65535
            /\ check_parameter_alerts(ParameterOf(r),
                                      actual_value(mock.hr[r]), 0) = <<>>

====
